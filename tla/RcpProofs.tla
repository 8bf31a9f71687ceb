----------------------------- MODULE RcpProofs -----------------------------
(***************************************************************************)
(* Theorems about module Rcp, for every number of threads, variables,      *)
(* objects and members.                                                    *)
(*                                                                         *)
(* The argument: Target says which object each place (a variable, a member *)
(* of an object, a saved pointer) refers to, and which of these references *)
(* count at this moment.  Every action changes Target at no place          *)
(* (FrameStep, SameTarget), at one (GainStep, LoseStep) or exchanges two   *)
(* (ExchangeStep), and for each kind of change the counter, the state of   *)
(* the object and the stacks of destructors change with it.  That nothing  *)
(* leaks follows from these and from an order of the objects, in which     *)
(* arguments come first.                                                   *)
(***************************************************************************)
EXTENDS Rcp, SequenceLemmas, FiniteSetTheorems

LEMMA TripleFinite ==
  ASSUME NEW a, NEW A, NEW B, IsFiniteSet(A), IsFiniteSet(B)
  PROVE  IsFiniteSet({a} \X A \X B)
<1> DEFINE f == [c \in A \X B |-> <<a, c[1], c[2]>>]
<1>1. IsFiniteSet(A \X B)
  BY FS_Product
<1>2. f \in [A \X B -> {a} \X A \X B]
  OBVIOUS
<1>3. ASSUME NEW x \in {a} \X A \X B
      PROVE  \E c \in A \X B : f[c] = x
  <2>1. <<x[2], x[3]>> \in A \X B
    OBVIOUS
  <2>2. f[<<x[2], x[3]>>] = <<a, x[2], x[3]>>
    BY <2>1
  <2>3. x = <<a, x[2], x[3]>>
    OBVIOUS
  <2> QED
    BY <2>1, <2>2, <2>3
<1>4. f \in Surjection(A \X B, {a} \X A \X B)
  BY <1>2, <1>3 DEF Surjection
<1> QED
  BY <1>1, <1>4, FS_Surjection

LEMMA SlotsFinite == IsFiniteSet(Slots) /\ Cardinality(Slots) \in Nat
<1>1. IsFiniteSet(Fields)
  BY RcpAssumption, FS_Interval DEF Fields
<1>2. IsFiniteSet({Null})
  BY FS_Singleton
<1>3. /\ IsFiniteSet({"var"} \X Threads \X Vars)
      /\ IsFiniteSet({"field"} \X Objs \X Fields)
      /\ IsFiniteSet({"saved"} \X Threads \X {Null})
  BY <1>1, <1>2, RcpAssumption, TripleFinite
<1>4. IsFiniteSet(Slots)
  BY <1>3, FS_Union DEF Slots
<1> QED
  BY <1>4, FS_CardinalityType

(* Stacks of destructors. *)
LEMMA PushProperties ==
  ASSUME NEW S, NEW s \in Seq(S), NEW p \in S
  PROVE  /\ <<p>> \o s \in Seq(S)
         /\ Range(<<p>> \o s) = Range(s) \cup {p}
         /\ IsInjective(s) /\ p \notin Range(s) => IsInjective(<<p>> \o s)
<1>1. <<p>> \in Seq(S) /\ Len(<<p>>) = 1 /\ <<p>>[1] = p
  OBVIOUS
<1>2. /\ <<p>> \o s \in Seq(S)
      /\ Len(<<p>> \o s) = 1 + Len(s)
      /\ \A i \in 1..(1 + Len(s)) :
           (<<p>> \o s)[i] = IF i <= 1 THEN <<p>>[i] ELSE s[i - 1]
  BY <1>1, ConcatProperties
<1>3. Range(<<p>>) = {p}
  BY <1>1 DEF Range
<1>4. Range(<<p>> \o s) = Range(s) \cup {p}
  <2>1. PICK u : u = <<p>> OBVIOUS
  <2>2. u \in Seq(S) BY <1>1, <2>1
  <2>3. Range(u \o s) = Range(u) \cup Range(s)
    BY <2>2, RangeConcatenation
  <2> QED
    BY <2>1, <2>3, <1>3
<1>5. ASSUME IsInjective(s), p \notin Range(s)
      PROVE  IsInjective(<<p>> \o s)
  <2>1. DOMAIN (<<p>> \o s) = 1..(1 + Len(s)) /\ DOMAIN s = 1..Len(s) /\ Len(s) \in Nat
    BY <1>2, LenProperties
  <2> SUFFICES ASSUME NEW i \in 1..(1 + Len(s)), NEW j \in 1..(1 + Len(s)),
                      (<<p>> \o s)[i] = (<<p>> \o s)[j]
               PROVE  i = j
    BY <2>1 DEF IsInjective
  <2>2. /\ (<<p>> \o s)[i] = IF i <= 1 THEN p ELSE s[i - 1]
        /\ (<<p>> \o s)[j] = IF j <= 1 THEN p ELSE s[j - 1]
    BY <1>1, <1>2
  <2>3. \A k \in 1..Len(s) : s[k] # p
    BY <1>5, <2>1 DEF Range
  <2>4. \A k, l \in 1..Len(s) : s[k] = s[l] => k = l
    BY <1>5, <2>1 DEF IsInjective
  <2>5. CASE i <= 1 /\ j <= 1
    BY <2>5, <2>1
  <2>6. CASE i <= 1 /\ ~(j <= 1)
    <3>1. j - 1 \in 1..Len(s)
      BY <2>6, <2>1
    <3> QED
      BY <3>1, <2>2, <2>3, <2>6
  <2>7. CASE ~(i <= 1) /\ j <= 1
    <3>1. i - 1 \in 1..Len(s)
      BY <2>7, <2>1
    <3> QED
      BY <3>1, <2>2, <2>3, <2>7
  <2>8. CASE ~(i <= 1) /\ ~(j <= 1)
    <3>1. i - 1 \in 1..Len(s) /\ j - 1 \in 1..Len(s)
      BY <2>8, <2>1
    <3>2. i - 1 = j - 1
      BY <3>1, <2>2, <2>4, <2>8
    <3> QED
      BY <3>2, <2>1
  <2> QED
    BY <2>5, <2>6, <2>7, <2>8
<1> QED
  BY <1>2, <1>4, <1>5

LEMMA PopProperties ==
  ASSUME NEW S, NEW s \in Seq(S), s # <<>>, IsInjective(s)
  PROVE  /\ Head(s) \in S /\ Head(s) \in Range(s)
         /\ Tail(s) \in Seq(S)
         /\ Range(Tail(s)) = Range(s) \ {Head(s)}
         /\ IsInjective(Tail(s))
<1>1. Len(s) \in Nat /\ Len(s) > 0 /\ DOMAIN s = 1..Len(s) /\ Head(s) = s[1]
  BY LenProperties, EmptySeq
<1>2. /\ Head(s) \in S /\ Tail(s) \in Seq(S)
      /\ Len(Tail(s)) = Len(s) - 1
      /\ \A i \in 1..Len(Tail(s)) : Tail(s)[i] = s[i + 1]
  BY HeadTailProperties
<1>3. DOMAIN Tail(s) = 1..(Len(s) - 1)
  BY <1>2, LenProperties
<1>4. \A i, j \in 1..Len(s) : s[i] = s[j] => i = j
  BY <1>1 DEF IsInjective
<1>5. Head(s) \in Range(s)
  BY <1>1 DEF Range
<1>6. ASSUME NEW i \in 1..(Len(s) - 1)
      PROVE  Tail(s)[i] \in Range(s) \ {Head(s)}
  <2>1. i + 1 \in 1..Len(s) /\ 1 \in 1..Len(s) /\ i + 1 # 1
    BY <1>1
  <2>2. Tail(s)[i] = s[i + 1]
    BY <1>2
  <2> QED
    BY <2>1, <2>2, <1>1, <1>4 DEF Range
<1>7. ASSUME NEW i \in 1..Len(s), s[i] # Head(s)
      PROVE  s[i] \in Range(Tail(s))
  <2>1. i - 1 \in 1..(Len(s) - 1) /\ (i - 1) + 1 = i
    BY <1>1, <1>7
  <2>2. Tail(s)[i - 1] = s[i]
    BY <2>1, <1>2
  <2> QED
    BY <2>1, <2>2, <1>3 DEF Range
<1>8. Range(Tail(s)) = Range(s) \ {Head(s)}
  BY <1>1, <1>3, <1>6, <1>7 DEF Range
<1>9. IsInjective(Tail(s))
  <2> SUFFICES ASSUME NEW i \in 1..(Len(s) - 1), NEW j \in 1..(Len(s) - 1),
                      Tail(s)[i] = Tail(s)[j]
               PROVE  i = j
    BY <1>3 DEF IsInjective
  <2>1. i + 1 \in 1..Len(s) /\ j + 1 \in 1..Len(s)
    BY <1>1
  <2>2. s[i + 1] = s[j + 1]
    BY <1>2
  <2>3. i + 1 = j + 1
    BY <2>1, <2>2, <1>4
  <2> QED
    BY <2>3
<1> QED
  BY <1>2, <1>5, <1>8, <1>9

-----------------------------------------------------------------------------
(* What a thread is in the middle of, and the memory it needs for it.      *)
Phases ==
  /\ \A t \in Threads :
       /\ pc[t] = "idle" => tmp[t] = Null
       /\ pc[t] # "idle" => dst[t] \in Vars
       /\ pc[t] # "store" => dying[t] = <<>>
       /\ pc[t] = "build" => /\ tmp[t] \in Objs
                             /\ heap[tmp[t]] = "building"
                             /\ var[t][dst[t]] = Null
       /\ pc[t] = "copy" => tmp[t] \in Objs /\ var[t][dst[t]] = Null
       /\ \A u \in Threads :
            pc[t] = "build" /\ pc[u] = "build" /\ tmp[t] = tmp[u] => t = u
  /\ \A o \in Objs : heap[o] = "free" => \A k \in Fields : field[o][k] = Null

LEMMA CounterPositive == CounterSize \in Nat /\ CounterSize > 0
  BY SlotsFinite, RcpAssumption

LEMMA IncrementType ==
  ASSUME TypeOK, NEW p \in Pointers, Increment(p)
  PROVE  refcount' \in [Objs -> 0..(CounterSize - 1)]
  BY CounterPositive DEF TypeOK, Increment, Pointers

LEMMA DecrementType ==
  ASSUME TypeOK, NEW t \in Threads, NEW p \in Pointers, Decrement(t, p)
  PROVE  /\ refcount' \in [Objs -> 0..(CounterSize - 1)]
         /\ dying' \in [Threads -> Seq(Objs)]
<1>1. CASE p = Null
  BY <1>1 DEF Decrement, TypeOK
<1>2. CASE p # Null
  <2>1. p \in Objs /\ dying[t] \in Seq(Objs)
    BY <1>2 DEF TypeOK, Pointers
  <2>2. <<p>> \o dying[t] \in Seq(Objs)
    BY <2>1, PushProperties
  <2>3. (refcount[p] - 1) % CounterSize \in 0..(CounterSize - 1)
    BY <2>1, CounterPositive DEF TypeOK
  <2> QED
    BY <1>2, <2>1, <2>2, <2>3, ZenonT(60) DEF Decrement, TypeOK
<1> QED
  BY <1>1, <1>2

LEMMA InitType == Init => TypeOK
  BY CounterPositive DEF Init, TypeOK, Pointers

LEMMA TypeStep ==
  ASSUME TypeOK, Phases, [Next]_vars
  PROVE  TypeOK'
<1> USE DEF TypeOK, Pointers
<1>1. CASE UNCHANGED vars
  BY <1>1 DEF vars
<1>2. ASSUME NEW t \in Threads, NEW v \in Vars, NEW o \in Objs, New(t, v, o)
      PROVE  TypeOK'
  BY <1>2, CounterPositive DEF New
<1>3. ASSUME NEW t \in Threads, NEW v \in Vars, NEW p \in Objs,
             CopyConstruct(t, v, p)
      PROVE  TypeOK'
  BY <1>3 DEF CopyConstruct
<1>4. ASSUME NEW t \in Threads, NEW v \in Vars, NEW p \in Pointers,
             CopyAssign(t, v, p)
      PROVE  TypeOK'
  BY <1>4 DEF CopyAssign
<1>5. ASSUME NEW t \in Threads, NEW v \in Vars, Reset(t, v)
      PROVE  TypeOK'
  BY <1>5, DecrementType DEF Reset
<1>6. ASSUME NEW t \in Threads, NEW v \in Vars, NEW w \in Vars,
             MoveAssign(t, v, w)
      PROVE  TypeOK'
  <2>1. var' = [var EXCEPT ![t][v] = var[t][w], ![t][w] = var[t][v]] BY <1>6 DEF MoveAssign
  <2>2. UNCHANGED <<heap, refcount, field, pc, tmp, dst, dying>> BY <1>6 DEF MoveAssign
  <2>3. var \in [Threads -> [Vars -> Pointers]] OBVIOUS
  <2>4. var[t][w] \in Pointers /\ var[t][v] \in Pointers BY <2>3
  <2>5. var' \in [Threads -> [Vars -> Pointers]] BY <2>1, <2>3, <2>4
  <2> QED BY <2>2, <2>5
<1>7. ASSUME NEW t \in Threads, NEW v \in Vars, NEW w \in Vars,
             NEW u \in Threads, HandOver(t, v, u, w)
      PROVE  TypeOK'
  <2>1. var[t][v] \in Objs \cup {Null} /\ t # u
    BY <1>7 DEF HandOver
  <2>2. var' = [[var EXCEPT ![u] = [@ EXCEPT ![w] = var[t][v]]]
                     EXCEPT ![t] = [@ EXCEPT ![v] = Null]]
    BY <1>7 DEF HandOver
  <2>3. var' \in [Threads -> [Vars -> Objs \cup {Null}]]
    BY <2>1, <2>2
  <2> QED
    BY <1>7, <2>3 DEF HandOver
<1>8. ASSUME NEW t \in Threads, NEW k \in Fields, NEW v \in Vars,
             BuildField(t, k, v)
      PROVE  TypeOK'
  <2>1. var[t][v] \in Objs \cup {Null} /\ tmp[t] \in Objs
    BY <1>8 DEF BuildField, Phases
  <2>2. [field[tmp[t]] EXCEPT ![k] = var[t][v]] \in [Fields -> Objs \cup {Null}]
    BY <2>1
  <2>3. field' \in [Objs -> [Fields -> Objs \cup {Null}]]
    BY <1>8, <2>1, <2>2 DEF BuildField
  <2>4. refcount' \in [Objs -> 0..(CounterSize - 1)]
    BY <1>8, <2>1, IncrementType DEF BuildField
  <2> QED
    BY <1>8, <2>3, <2>4 DEF BuildField
<1>9. ASSUME NEW t \in Threads, Publish(t)
      PROVE  TypeOK'
  BY <1>9, IncrementType DEF Publish
<1>10. ASSUME NEW t \in Threads, DropOld(t)
       PROVE  TypeOK'
  <2>1. dst[t] \in Vars
    BY <1>10 DEF DropOld, Phases
  <2> QED
    BY <1>10, <2>1, DecrementType DEF DropOld
<1>11. ASSUME NEW t \in Threads, BeginDelete(t)
       PROVE  TypeOK'
  BY <1>11 DEF BeginDelete
<1>12. ASSUME NEW t \in Threads, NEW k \in Fields, DestroyField(t, k)
       PROVE  TypeOK'
  <2>1. Head(dying[t]) \in Objs
    BY <1>12, HeadTailProperties DEF DestroyField
  <2> QED
    BY <1>12, <2>1, DecrementType DEF DestroyField
<1>13. ASSUME NEW t \in Threads, Free(t)
       PROVE  TypeOK'
  BY <1>13, HeadTailProperties DEF Free
<1>14. ASSUME NEW t \in Threads, Store(t)
       PROVE  TypeOK'
  BY <1>14 DEF Store
<1>15. ASSUME NEW t \in Threads, CountCopy(t)
       PROVE  TypeOK'
  BY <1>15, IncrementType DEF CountCopy
<1>16. ASSUME NEW t \in Threads, CountAssign(t)
       PROVE  TypeOK'
  BY <1>16, IncrementType DEF CountAssign
<1> QED
  BY <1>1, <1>2, <1>3, <1>4, <1>5, <1>6, <1>7, <1>8, <1>9, <1>10, <1>11,
     <1>12, <1>13, <1>14, <1>15, <1>16 DEF Next, Start, Continue

LEMMA DecrementOwnStack ==
  ASSUME TypeOK, NEW t \in Threads, NEW p \in Pointers, Decrement(t, p)
  PROVE  \A u \in Threads \ {t} : dying'[u] = dying[u]
  BY DEF Decrement, TypeOK

LEMMA PhasesStep ==
  ASSUME TypeOK, Phases, [Next]_vars
  PROVE  Phases'
<1> USE DEF TypeOK, Pointers
<1>1. CASE UNCHANGED vars
  BY <1>1 DEF vars, Phases
<1>2. ASSUME NEW t \in Threads, NEW v \in Vars, NEW o \in Objs, New(t, v, o)
      PROVE  Phases'
  BY <1>2 DEF New, Phases, Idle
<1>3. ASSUME NEW t \in Threads, NEW v \in Vars, NEW p \in Objs,
             CopyConstruct(t, v, p)
      PROVE  Phases'
  BY <1>3 DEF CopyConstruct, Phases, Idle
<1>4. ASSUME NEW t \in Threads, NEW v \in Vars, NEW p \in Pointers,
             CopyAssign(t, v, p)
      PROVE  Phases'
  BY <1>4 DEF CopyAssign, Phases, Idle
<1>5. ASSUME NEW t \in Threads, NEW v \in Vars, Reset(t, v)
      PROVE  Phases'
  BY <1>5, DecrementOwnStack DEF Reset, Phases, Idle
<1>6. ASSUME NEW t \in Threads, NEW v \in Vars, NEW w \in Vars,
             MoveAssign(t, v, w)
      PROVE  Phases'
  BY <1>6 DEF MoveAssign, Phases, Idle
<1>7. ASSUME NEW t \in Threads, NEW v \in Vars, NEW w \in Vars,
             NEW u \in Threads, HandOver(t, v, u, w)
      PROVE  Phases'
  <2>1. \A x \in Threads : pc[x] # "idle" => var'[x] = var[x]
    BY <1>7 DEF HandOver, Idle
  <2>2. UNCHANGED <<heap, field, pc, tmp, dst, dying>>
    BY <1>7 DEF HandOver
  <2> QED
    BY <2>1, <2>2 DEF Phases
<1>8. ASSUME NEW t \in Threads, NEW k \in Fields, NEW v \in Vars,
             BuildField(t, k, v)
      PROVE  Phases'
  <2>1. tmp[t] \in Objs /\ heap[tmp[t]] = "building"
    BY <1>8 DEF BuildField, Phases
  <2>2. \A o \in Objs \ {tmp[t]} : field'[o] = field[o]
    BY <1>8, <2>1 DEF BuildField
  <2> QED
    BY <1>8, <2>1, <2>2 DEF BuildField, Phases
<1>9. ASSUME NEW t \in Threads, Publish(t)
      PROVE  Phases'
  BY <1>9 DEF Publish, Phases
<1>10. ASSUME NEW t \in Threads, DropOld(t)
       PROVE  Phases'
  <2>1. var[t][dst[t]] \in Pointers
    BY <1>10 DEF DropOld, Phases
  <2>2. \A u \in Threads \ {t} : dying'[u] = dying[u]
    BY <1>10, <2>1, DecrementOwnStack DEF DropOld
  <2> QED
    BY <1>10, <2>2 DEF DropOld, Phases
<1>11. ASSUME NEW t \in Threads, BeginDelete(t)
       PROVE  Phases'
  BY <1>11 DEF BeginDelete, Phases
<1>12. ASSUME NEW t \in Threads, NEW k \in Fields, DestroyField(t, k)
       PROVE  Phases'
  <2>1. Head(dying[t]) \in Objs
    BY <1>12, HeadTailProperties DEF DestroyField
  <2>2. \A u \in Threads \ {t} : dying'[u] = dying[u]
    BY <1>12, <2>1, DecrementOwnStack DEF DestroyField
  <2>3. \A o \in Objs \ {Head(dying[t])} : field'[o] = field[o]
    BY <1>12 DEF DestroyField
  <2>4. pc[t] = "store"
    BY <1>12 DEF DestroyField, Phases
  <2>5. heap[Head(dying[t])] = "dying"
    BY <1>12 DEF DestroyField
  <2> QED
    BY <1>12, <2>1, <2>2, <2>3, <2>4, <2>5 DEF DestroyField, Phases
<1>13. ASSUME NEW t \in Threads, Free(t)
       PROVE  Phases'
  <2>1. Head(dying[t]) \in Objs
    BY <1>13, HeadTailProperties DEF Free
  <2> QED
    BY <1>13, <2>1 DEF Free, Phases
<1>14. ASSUME NEW t \in Threads, Store(t)
       PROVE  Phases'
  BY <1>14 DEF Store, Phases
<1>15. ASSUME NEW t \in Threads, CountCopy(t)
       PROVE  Phases'
  BY <1>15 DEF CountCopy, Phases
<1>16. ASSUME NEW t \in Threads, CountAssign(t)
       PROVE  Phases'
  BY <1>16 DEF CountAssign, Phases
<1> QED
  BY <1>1, <1>2, <1>3, <1>4, <1>5, <1>6, <1>7, <1>8, <1>9, <1>10, <1>11,
     <1>12, <1>13, <1>14, <1>15, <1>16 DEF Next, Start, Continue

-----------------------------------------------------------------------------
(* The places a reference can be in.                                       *)

LEMMA SlotCases ==
  /\ \A t \in Threads, v \in Vars : <<"var", t, v>> \in Slots
  /\ \A o \in Objs, k \in Fields : <<"field", o, k>> \in Slots
  /\ \A t \in Threads : <<"saved", t, Null>> \in Slots
  /\ \A x \in Slots :
       \/ \E t \in Threads, v \in Vars : x = <<"var", t, v>>
       \/ \E o \in Objs, k \in Fields : x = <<"field", o, k>>
       \/ \E t \in Threads : x = <<"saved", t, Null>>
<1>1. /\ \A t \in Threads, v \in Vars : <<"var", t, v>> \in Slots
      /\ \A o \in Objs, k \in Fields : <<"field", o, k>> \in Slots
      /\ \A t \in Threads : <<"saved", t, Null>> \in Slots
  BY DEF Slots
<1>2. ASSUME NEW x \in {"var"} \X Threads \X Vars
      PROVE  \E t \in Threads, v \in Vars : x = <<"var", t, v>>
  OBVIOUS
<1>3. ASSUME NEW x \in {"field"} \X Objs \X Fields
      PROVE  \E o \in Objs, k \in Fields : x = <<"field", o, k>>
  OBVIOUS
<1>4. ASSUME NEW x \in {"saved"} \X Threads \X {Null}
      PROVE  \E t \in Threads : x = <<"saved", t, Null>>
  OBVIOUS
<1> QED
  BY <1>1, <1>2, <1>3, <1>4 DEF Slots

LEMMA TargetCases ==
  /\ \A t \in Threads, v \in Vars :
       Target[<<"var", t, v>>]
         = IF pc[t] = "store" /\ dst[t] = v THEN Null ELSE var[t][v]
  /\ \A o \in Objs, k \in Fields : Target[<<"field", o, k>>] = field[o][k]
  /\ \A t \in Threads :
       Target[<<"saved", t, Null>>]
         = IF pc[t] \in {"build", "copy", "assign"} THEN Null ELSE tmp[t]
  BY SlotCases DEF Target, Stale, Uncounted

LEMMA TargetCasesNext ==
  /\ \A t \in Threads, v \in Vars :
       Target'[<<"var", t, v>>]
         = IF pc'[t] = "store" /\ dst'[t] = v THEN Null ELSE var'[t][v]
  /\ \A o \in Objs, k \in Fields : Target'[<<"field", o, k>>] = field'[o][k]
  /\ \A t \in Threads :
       Target'[<<"saved", t, Null>>]
         = IF pc'[t] \in {"build", "copy", "assign"} THEN Null ELSE tmp'[t]
  BY SlotCases DEF Target, Stale, Uncounted

LEMMA RefsType ==
  \A o : /\ IsFiniteSet(Refs(o))
         /\ Cardinality(Refs(o)) \in Nat
         /\ Cardinality(Refs(o)) = 0 <=> Refs(o) = {}
<1> SUFFICES ASSUME NEW o
             PROVE  /\ IsFiniteSet(Refs(o))
                    /\ Cardinality(Refs(o)) \in Nat
                    /\ Cardinality(Refs(o)) = 0 <=> Refs(o) = {}
  OBVIOUS
<1>1. Refs(o) \in SUBSET Slots
  BY DEF Refs
<1> QED
  BY <1>1, SlotsFinite, FS_Subset, FS_CardinalityType, FS_EmptySet

LEMMA RefsTypeNext ==
  \A o : /\ IsFiniteSet(Refs(o)')
         /\ Cardinality(Refs(o)') \in Nat
         /\ Cardinality(Refs(o)') = 0 <=> Refs(o)' = {}
<1> SUFFICES ASSUME NEW o
             PROVE  /\ IsFiniteSet(Refs(o)')
                    /\ Cardinality(Refs(o)') \in Nat
                    /\ Cardinality(Refs(o)') = 0 <=> Refs(o)' = {}
  OBVIOUS
<1>1. Refs(o)' \in SUBSET Slots
  BY DEF Refs
<1> QED
  BY <1>1, SlotsFinite, FS_Subset, FS_CardinalityType, FS_EmptySet

LEMMA RefsChange ==
  ASSUME NEW s \in Slots,
         \A x \in Slots \ {s} : Target'[x] = Target[x],
         NEW o
  PROVE  /\ Cardinality(Refs(o)') <= Cardinality(Slots)
         /\ Target[s] = o /\ Target'[s] # o
              => Cardinality(Refs(o)') = Cardinality(Refs(o)) - 1
         /\ Target[s] # o /\ Target'[s] = o
              => Cardinality(Refs(o)') = Cardinality(Refs(o)) + 1
         /\ (Target[s] = o <=> Target'[s] = o) => Refs(o)' = Refs(o)
<1>1. IsFiniteSet(Refs(o)) /\ IsFiniteSet(Refs(o)')
  BY RefsType, RefsTypeNext
<1>2. Cardinality(Refs(o)') <= Cardinality(Slots)
  <2>1. Refs(o)' \in SUBSET Slots
    BY DEF Refs
  <2> QED
    BY <2>1, SlotsFinite, FS_Subset
<1>3. ASSUME Target[s] = o, Target'[s] # o
      PROVE  Cardinality(Refs(o)') = Cardinality(Refs(o)) - 1
  <2>1. Refs(o)' = Refs(o) \ {s} /\ s \in Refs(o)
    BY <1>3 DEF Refs
  <2> QED
    BY <2>1, <1>1, FS_RemoveElement
<1>4. ASSUME Target[s] # o, Target'[s] = o
      PROVE  Cardinality(Refs(o)') = Cardinality(Refs(o)) + 1
  <2>1. Refs(o)' = Refs(o) \cup {s} /\ s \notin Refs(o)
    BY <1>4 DEF Refs
  <2> QED
    BY <2>1, <1>1, FS_AddElement
<1>5. ASSUME Target[s] = o <=> Target'[s] = o
      PROVE  Refs(o)' = Refs(o)
  BY <1>5 DEF Refs
<1> QED
  BY <1>2, <1>3, <1>4, <1>5

LEMMA GainCount ==
  ASSUME TypeOK, CountExact,
         NEW s \in Slots, NEW p \in Objs,
         Target[s] = Null, Target'[s] = p,
         \A x \in Slots \ {s} : Target'[x] = Target[x],
         Increment(p)
  PROVE  /\ CountExact'
         /\ Refs(p)' # {}
         /\ \A o \in Objs \ {p} : Refs(o)' = Refs(o)
<1>1. p # Null
  BY RcpAssumption
<1>2. \A o \in Objs \ {p} : Refs(o)' = Refs(o)
  <2> SUFFICES ASSUME NEW o \in Objs \ {p} PROVE Refs(o)' = Refs(o)
    OBVIOUS
  <2>1. Target[s] # o /\ Target'[s] # o
    BY RcpAssumption
  <2> QED
    BY <2>1, RefsChange
<1>3. /\ Cardinality(Refs(p)') = Cardinality(Refs(p)) + 1
      /\ Cardinality(Refs(p)') <= Cardinality(Slots)
  BY <1>1, RefsChange
<1>4. refcount[p] = Cardinality(Refs(p))
  BY DEF CountExact
<1>5. refcount'[p] = Cardinality(Refs(p)')
  <2>1. refcount'[p] = (refcount[p] + 1) % CounterSize
    BY <1>1 DEF Increment, TypeOK
  <2>2. refcount[p] + 1 \in 0..(CounterSize - 1)
    BY <1>3, <1>4, RefsType, SlotsFinite, RcpAssumption
  <2>3. (refcount[p] + 1) % CounterSize = refcount[p] + 1
    BY <2>2, CounterPositive
  <2> QED
    BY <2>1, <2>3, <1>3, <1>4
<1>6. \A o \in Objs \ {p} : refcount'[o] = refcount[o]
  BY <1>1 DEF Increment, TypeOK
<1>7. Refs(p)' # {}
  BY DEF Refs
<1> QED
  BY <1>2, <1>5, <1>6, <1>7 DEF CountExact

LEMMA LoseCount ==
  ASSUME TypeOK, CountExact,
         NEW s \in Slots, NEW p \in Objs, NEW t \in Threads,
         Target[s] = p, Target'[s] = Null,
         \A x \in Slots \ {s} : Target'[x] = Target[x],
         Decrement(t, p)
  PROVE  /\ CountExact'
         /\ \A o \in Objs \ {p} : Refs(o)' = Refs(o)
         /\ dying' = IF Refs(p)' = {} THEN [dying EXCEPT ![t] = <<p>> \o @]
                                      ELSE dying
<1>1. p # Null
  BY RcpAssumption
<1>2. \A o \in Objs \ {p} : Refs(o)' = Refs(o)
  <2> SUFFICES ASSUME NEW o \in Objs \ {p} PROVE Refs(o)' = Refs(o)
    OBVIOUS
  <2>1. Target[s] # o /\ Target'[s] # o
    BY RcpAssumption
  <2> QED
    BY <2>1, RefsChange
<1>3. Cardinality(Refs(p)') = Cardinality(Refs(p)) - 1
  BY <1>1, RefsChange
<1>4. refcount[p] = Cardinality(Refs(p))
  BY DEF CountExact
<1>5. (refcount[p] - 1) % CounterSize = Cardinality(Refs(p)')
  <2>1. Refs(p) # {}
    BY DEF Refs
  <2>2. refcount[p] - 1 \in 0..(CounterSize - 1)
    BY <2>1, <1>4, RefsType, CounterPositive DEF TypeOK
  <2>3. (refcount[p] - 1) % CounterSize = refcount[p] - 1
    BY <2>2, CounterPositive
  <2> QED
    BY <2>3, <1>3, <1>4
<1>6. /\ refcount'[p] = Cardinality(Refs(p)')
      /\ \A o \in Objs \ {p} : refcount'[o] = refcount[o]
  BY <1>1, <1>5 DEF Decrement, TypeOK
<1>7. dying' = IF Refs(p)' = {} THEN [dying EXCEPT ![t] = <<p>> \o @] ELSE dying
  BY <1>1, <1>5, RefsTypeNext DEF Decrement
<1> QED
  BY <1>2, <1>6, <1>7 DEF CountExact

LEMMA ExchangeCount ==
  ASSUME NEW a \in Slots, NEW b \in Slots, a # b,
         Target'[a] = Target[b], Target'[b] = Target[a],
         \A x \in Slots \ {a, b} : Target'[x] = Target[x]
  PROVE  \A o : Cardinality(Refs(o)') = Cardinality(Refs(o))
<1> SUFFICES ASSUME NEW o
             PROVE  Cardinality(Refs(o)') = Cardinality(Refs(o))
  OBVIOUS
<1>1. IsFiniteSet(Refs(o)) /\ Cardinality(Refs(o)) \in Nat
  BY RefsType
<1>2. CASE Target[a] = o <=> Target[b] = o
  <2>1. Refs(o)' = Refs(o)
    BY <1>2 DEF Refs
  <2> QED
    BY <2>1
<1>3. ASSUME NEW c \in Slots, NEW d \in Slots, Target[c] = o, Target[d] # o,
             Target'[c] # o, Target'[d] = o,
             \A x \in Slots \ {c, d} : Target'[x] = Target[x]
      PROVE  Cardinality(Refs(o)') = Cardinality(Refs(o))
  <2>1. Refs(o)' = (Refs(o) \ {c}) \cup {d} /\ c \in Refs(o) /\ d \notin Refs(o) \ {c}
    BY <1>3 DEF Refs
  <2>2. IsFiniteSet(Refs(o) \ {c})
        /\ Cardinality(Refs(o) \ {c}) = Cardinality(Refs(o)) - 1
    BY <2>1, <1>1, FS_RemoveElement
  <2>3. Cardinality(Refs(o)') = Cardinality(Refs(o) \ {c}) + 1
    BY <2>1, <2>2, FS_AddElement
  <2> QED
    BY <2>2, <2>3, <1>1
<1>4. CASE Target[a] = o /\ Target[b] # o
  BY <1>3, <1>4
<1>5. CASE Target[a] # o /\ Target[b] = o
  BY <1>3, <1>5
<1> QED
  BY <1>2, <1>4, <1>5

-----------------------------------------------------------------------------
(* What each kind of step does to the safety properties.                   *)

(* A place that counts refers to an object that is not destroyed.          *)
KeptLive == \A o \in Objs : Refs(o) # {} => heap[o] = "live"

Safety == CountExact /\ KeptLive /\ DestroyedOnce

(* A place that counts refers to a live object.                            *)
LEMMA TargetLive ==
  ASSUME KeptLive, NEW s \in Slots, Target[s] \in Objs
  PROVE  heap[Target[s]] = "live" /\ Refs(Target[s]) # {}
<1>1. s \in Refs(Target[s])
  BY DEF Refs
<1> QED
  BY <1>1 DEF KeptLive

(* No reference changes: a step of an allocation or of a destructor.       *)
LEMMA SameRefs ==
  ASSUME \A x \in Slots : Target'[x] = Target[x]
  PROVE  \A o : Refs(o)' = Refs(o)
  BY DEF Refs

(* A copy is made of a pointer to a live object.                           *)
LEMMA GainStep ==
  ASSUME TypeOK, Safety,
         NEW s \in Slots, NEW p \in Objs,
         heap[p] = "live", Refs(p) # {},
         Target[s] = Null, Target'[s] = p,
         \A x \in Slots \ {s} : Target'[x] = Target[x],
         Increment(p), UNCHANGED <<heap, dying>>
  PROVE  Safety'
<1>1. /\ CountExact'
      /\ Refs(p)' # {}
      /\ \A o \in Objs \ {p} : Refs(o)' = Refs(o)
  BY GainCount DEF Safety
<1>2. KeptLive'
  BY <1>1 DEF Safety, KeptLive
<1>3. DestroyedOnce'
  BY <1>1 DEF Safety, DestroyedOnce, Deleting
<1> QED
  BY <1>1, <1>2, <1>3 DEF Safety

(* A pointer is dropped, and with the last one the object's destructor is  *)
(* put on the thread's stack.                                              *)
LEMMA LoseStep ==
  ASSUME TypeOK, Safety,
         NEW s \in Slots, NEW p \in Objs, NEW t \in Threads,
         Target[s] = p, Target'[s] = Null,
         \A x \in Slots \ {s} : Target'[x] = Target[x],
         Decrement(t, p), UNCHANGED heap
  PROVE  Safety'
<1>1. /\ CountExact'
      /\ \A o \in Objs \ {p} : Refs(o)' = Refs(o)
      /\ dying' = IF Refs(p)' = {} THEN [dying EXCEPT ![t] = <<p>> \o @]
                                   ELSE dying
  BY LoseCount DEF Safety
<1>2. heap[p] = "live" /\ Refs(p) # {}
  BY TargetLive DEF Safety
<1>3. \A u \in Threads : p \notin Deleting(u)
  BY <1>2 DEF Safety, DestroyedOnce
<1>4. KeptLive'
  BY <1>1, <1>2 DEF Safety, KeptLive
<1>5. CASE Refs(p)' # {}
  <2>1. dying' = dying
    BY <1>1, <1>5
  <2>2. \A o \in Objs : Refs(o)' = {} <=> Refs(o) = {}
    BY <1>1, <1>2, <1>5
  <2>3. DestroyedOnce'
    BY <2>1, <2>2 DEF Safety, DestroyedOnce, Deleting
  <2> QED
    BY <2>3, <1>1, <1>4 DEF Safety
<1>6. CASE Refs(p)' = {}
  <2>1. dying[t] \in Seq(Objs) /\ p \notin Range(dying[t]) /\ IsInjective(dying[t])
    BY <1>3 DEF TypeOK, Safety, DestroyedOnce, Deleting
  <2>2. dying'[t] = <<p>> \o dying[t] /\ \A u \in Threads \ {t} : dying'[u] = dying[u]
    BY <1>1, <1>6 DEF TypeOK
  <2>3. IsInjective(dying'[t]) /\ Range(dying'[t]) = Range(dying[t]) \cup {p}
    BY <2>1, <2>2, PushProperties
  <2>4. /\ Deleting(t)' = Deleting(t) \cup {p}
        /\ \A u \in Threads \ {t} : Deleting(u)' = Deleting(u)
    BY <2>2, <2>3 DEF Deleting
  <2>5. \A u \in Threads : IsInjective(dying'[u])
    BY <2>2, <2>3 DEF Safety, DestroyedOnce
  <2>6. \A u, w \in Threads : u # w => Deleting(u)' \cap Deleting(w)' = {}
    BY <2>4, <1>3 DEF Safety, DestroyedOnce
  <2>7. \A o \in Objs :
          (\E u \in Threads : o \in Deleting(u)')
            <=> (heap'[o] = "dying" \/ (heap'[o] = "live" /\ Refs(o)' = {}))
    BY <2>4, <1>1, <1>2, <1>6 DEF Safety, DestroyedOnce
  <2>8. DestroyedOnce'
    BY <2>5, <2>6, <2>7 DEF DestroyedOnce
  <2> QED
    BY <2>8, <1>1, <1>4 DEF Safety
<1> QED
  BY <1>1, <1>4, <1>5, <1>6 DEF Safety

(* Two places exchange what they refer to: a move.                         *)
LEMMA ExchangeStep ==
  ASSUME TypeOK, Safety,
         NEW a \in Slots, NEW b \in Slots, a # b,
         Target'[a] = Target[b], Target'[b] = Target[a],
         \A x \in Slots \ {a, b} : Target'[x] = Target[x],
         UNCHANGED <<heap, refcount, dying>>
  PROVE  Safety'
<1>1. \A o : Cardinality(Refs(o)') = Cardinality(Refs(o))
  BY ExchangeCount
<1>2. \A o : Refs(o)' = {} <=> Refs(o) = {}
  BY <1>1, RefsType, RefsTypeNext
<1>3. CountExact'
  BY <1>1 DEF Safety, CountExact
<1>4. KeptLive'
  BY <1>2 DEF Safety, KeptLive
<1>5. DestroyedOnce'
  BY <1>2 DEF Safety, DestroyedOnce, Deleting
<1> QED
  BY <1>3, <1>4, <1>5 DEF Safety

-----------------------------------------------------------------------------
(* The inductive invariant.                                                *)

(* What the threads in the middle of a statement rely on: the pointer that *)
(* a copy or an assignment has read is still where it was read, and the    *)
(* members of an object under construction are copies of variables its     *)
(* maker still has; for no live object changes.                            *)
Halfway ==
  \A t \in Threads :
    /\ pc[t] \in {"copy", "assign", "drop"} => tmp[t] \in Sources(t) \cup {Null}
    /\ pc[t] = "build" =>
         \A k \in Fields : field[tmp[t]][k] \in {var[t][w] : w \in Vars} \cup {Null}

IInv == TypeOK /\ Phases /\ Safety /\ Halfway

(* A pointer a thread copies from one of its variables, or from a member   *)
(* of an object one of them holds, points to a live object.                *)
LEMMA SourcesLive ==
  ASSUME TypeOK, KeptLive, NEW t \in Threads, pc[t] # "store",
         NEW p \in Sources(t), p # Null
  PROVE  p \in Objs /\ heap[p] = "live" /\ Refs(p) # {}
<1>1. \A v \in Vars : Target[<<"var", t, v>>] = var[t][v]
  BY TargetCases
<1>2. CASE \E v \in Vars : p = var[t][v]
  <2>1. PICK v \in Vars : p = var[t][v]
    BY <1>2
  <2>2. p \in Objs
    BY <2>1 DEF TypeOK, Pointers
  <2> QED
    BY <2>1, <2>2, <1>1, SlotCases, TargetLive
<1>3. CASE \E o \in {var[t][v] : v \in Vars} \ {Null}, k \in Fields : p = field[o][k]
  <2>1. PICK o \in {var[t][v] : v \in Vars} \ {Null}, k \in Fields : p = field[o][k]
    BY <1>3
  <2>2. o \in Objs /\ p \in Objs
    BY <2>1 DEF TypeOK, Pointers
  <2>3. <<"field", o, k>> \in Slots /\ Target[<<"field", o, k>>] = p
    BY <2>1, <2>2, SlotCases, TargetCases
  <2> QED
    BY <2>2, <2>3, TargetLive
<1> QED
  BY <1>2, <1>3 DEF Sources

LEMMA InitSafety == Init => Phases /\ Safety
<1> SUFFICES ASSUME Init PROVE Phases /\ Safety
  OBVIOUS
<1>1. Phases
  BY DEF Init, Phases
<1>2. \A x \in Slots : Target[x] = Null
  BY SlotCases, TargetCases DEF Init
<1>3. \A o \in Objs : Refs(o) = {}
  BY <1>2, RcpAssumption DEF Refs
<1>4. CountExact
  BY <1>3, FS_EmptySet DEF CountExact, Init
<1>5. KeptLive
  BY <1>3 DEF KeptLive
<1>6. \A t \in Threads : IsInjective(dying[t]) /\ Deleting(t) = {}
  BY DEF Init, Deleting, IsInjective, Range
<1>7. DestroyedOnce
  BY <1>6 DEF DestroyedOnce, Init
<1> QED
  BY <1>1, <1>4, <1>5, <1>7 DEF Safety

LEMMA NewSafety ==
  ASSUME IInv, NEW t \in Threads, NEW v \in Vars, NEW o \in Objs, New(t, v, o)
  PROVE  Safety'
<1> USE DEF IInv, Safety
<1>1. \A x \in Slots : Target'[x] = Target[x]
  <2>0. /\ pc[t] = "idle" /\ pc'[t] = "build" /\ tmp[t] = Null
        /\ \A u \in Threads \ {t} :
             pc'[u] = pc[u] /\ dst'[u] = dst[u] /\ tmp'[u] = tmp[u]
        /\ var' = var /\ field' = field
    BY DEF New, Idle, TypeOK, Phases
  <2>1. ASSUME NEW u \in Threads, NEW w \in Vars
        PROVE  Target'[<<"var", u, w>>] = Target[<<"var", u, w>>]
    BY <2>0, TargetCases, TargetCasesNext
  <2>2. ASSUME NEW q \in Objs, NEW k \in Fields
        PROVE  Target'[<<"field", q, k>>] = Target[<<"field", q, k>>]
    BY <2>0, TargetCases, TargetCasesNext
  <2>3. ASSUME NEW u \in Threads
        PROVE  Target'[<<"saved", u, Null>>] = Target[<<"saved", u, Null>>]
    BY <2>0, TargetCases, TargetCasesNext
  <2> QED
    BY <2>1, <2>2, <2>3, SlotCases
<1>2. \A q : Refs(q)' = Refs(q)
  BY <1>1, SameRefs
<1>3. Refs(o) = {}
  BY DEF New, KeptLive
<1>4. refcount[o] = 0
  BY <1>3, RefsType DEF CountExact
<1>5. refcount' = refcount
  BY <1>4 DEF New, TypeOK
<1>6. CountExact'
  BY <1>2, <1>5 DEF CountExact
<1>7. KeptLive'
  BY <1>2, <1>3 DEF KeptLive, New, TypeOK
<1>8. /\ \A q \in Objs : heap'[q] = "dying" <=> heap[q] = "dying"
      /\ \A q \in Objs : heap'[q] = "live" <=> heap[q] = "live"
  BY DEF New, TypeOK
<1>9. DestroyedOnce'
  BY <1>2, <1>8 DEF DestroyedOnce, Deleting, New
<1> QED
  BY <1>6, <1>7, <1>9

LEMMA BuildFieldSafety ==
  ASSUME IInv, NEW t \in Threads, NEW k \in Fields, NEW v \in Vars,
         BuildField(t, k, v)
  PROVE  Safety'
<1> USE DEF IInv
<1> DEFINE p == var[t][v]
           s == <<"field", tmp[t], k>>
<1>1. /\ pc[t] = "build" /\ p # Null /\ tmp[t] \in Objs /\ field[tmp[t]][k] = Null
      /\ UNCHANGED <<heap, var, pc, tmp, dst, dying>>
      /\ Increment(p)
  BY DEF BuildField, Phases
<1>2. p \in Objs /\ heap[p] = "live" /\ Refs(p) # {}
  BY <1>1, SourcesLive DEF Safety, Sources
<1>3. s \in Slots /\ Target[s] = Null /\ Target'[s] = p
  BY <1>1, SlotCases, TargetCases, TargetCasesNext DEF BuildField, TypeOK
<1>4. \A x \in Slots \ {s} : Target'[x] = Target[x]
  <2>1. ASSUME NEW u \in Threads, NEW w \in Vars
        PROVE  Target'[<<"var", u, w>>] = Target[<<"var", u, w>>]
    BY <1>1, TargetCases, TargetCasesNext
  <2>2. ASSUME NEW q \in Objs, NEW j \in Fields, <<"field", q, j>> # s
        PROVE  Target'[<<"field", q, j>>] = Target[<<"field", q, j>>]
    <3>1. field'[q][j] = field[q][j]
      BY <1>1, <2>2 DEF BuildField, TypeOK
    <3> QED
      BY <3>1, TargetCases, TargetCasesNext
  <2>3. ASSUME NEW u \in Threads
        PROVE  Target'[<<"saved", u, Null>>] = Target[<<"saved", u, Null>>]
    BY <1>1, TargetCases, TargetCasesNext
  <2> QED
    BY <2>1, <2>2, <2>3, SlotCases
<1> HIDE DEF p, s
<1> QED
  BY <1>1, <1>2, <1>3, <1>4, GainStep

LEMMA PublishSafety ==
  ASSUME IInv, NEW t \in Threads, Publish(t)
  PROVE  Safety'
<1> USE DEF IInv
<1> PICK p \in Objs : p = tmp[t]
  BY DEF Publish, Phases
<1> DEFINE s == <<"var", t, dst[t]>>
<1>1. /\ pc[t] = "build" /\ dst[t] \in Vars
      /\ heap[p] = "building" /\ var[t][dst[t]] = Null
      /\ pc'[t] = "idle" /\ tmp'[t] = Null /\ var'[t][dst[t]] = p
      /\ \A u \in Threads \ {t} :
           pc'[u] = pc[u] /\ dst'[u] = dst[u] /\ tmp'[u] = tmp[u] /\ var'[u] = var[u]
      /\ \A w \in Vars \ {dst[t]} : var'[t][w] = var[t][w]
      /\ UNCHANGED <<field, dying>>
      /\ heap' = [heap EXCEPT ![p] = "live"]
      /\ Increment(p)
  BY DEF Publish, Phases, TypeOK
<1>2. s \in Slots /\ Target[s] = Null /\ Target'[s] = p
  BY <1>1, SlotCases, TargetCases, TargetCasesNext
<1>3. \A x \in Slots \ {s} : Target'[x] = Target[x]
  <2>1. ASSUME NEW u \in Threads, NEW w \in Vars, <<"var", u, w>> # s
        PROVE  Target'[<<"var", u, w>>] = Target[<<"var", u, w>>]
    BY <1>1, <2>1, TargetCases, TargetCasesNext
  <2>2. ASSUME NEW q \in Objs, NEW j \in Fields
        PROVE  Target'[<<"field", q, j>>] = Target[<<"field", q, j>>]
    BY <1>1, TargetCases, TargetCasesNext
  <2>3. ASSUME NEW u \in Threads
        PROVE  Target'[<<"saved", u, Null>>] = Target[<<"saved", u, Null>>]
    BY <1>1, TargetCases, TargetCasesNext
  <2> QED
    BY <2>1, <2>2, <2>3, SlotCases
<1>4. /\ CountExact'
      /\ Refs(p)' # {}
      /\ \A o \in Objs \ {p} : Refs(o)' = Refs(o)
  <2> HIDE DEF s
  <2> QED
    BY <1>1, <1>2, <1>3, GainCount DEF Safety
<1>5. KeptLive'
  BY <1>1, <1>4 DEF Safety, KeptLive, TypeOK
<1>6. \A o \in Objs : (heap'[o] = "dying" \/ (heap'[o] = "live" /\ Refs(o)' = {}))
                        <=> (heap[o] = "dying" \/ (heap[o] = "live" /\ Refs(o) = {}))
  BY <1>1, <1>4 DEF TypeOK
<1>7. DestroyedOnce'
  BY <1>1, <1>6 DEF Safety, DestroyedOnce, Deleting
<1> QED
  BY <1>4, <1>5, <1>7 DEF Safety

(* No reference changes and nothing is counted or destroyed.               *)
LEMMA FrameStep ==
  ASSUME Safety, \A x \in Slots : Target'[x] = Target[x],
         UNCHANGED <<heap, refcount, dying>>
  PROVE  Safety'
<1>1. \A o : Refs(o)' = Refs(o)
  BY SameRefs
<1> QED
  BY <1>1 DEF Safety, CountExact, KeptLive, DestroyedOnce, Deleting

(* A thread reads the pointer it is about to copy: that is no reference    *)
(* yet.                                                                    *)
LEMMA ReadStep ==
  ASSUME Safety, NEW t \in Threads,
         pc[t] = "idle", pc'[t] \in {"copy", "assign"}, tmp[t] = Null,
         \A u \in Threads \ {t} :
           pc'[u] = pc[u] /\ dst'[u] = dst[u] /\ tmp'[u] = tmp[u],
         UNCHANGED <<heap, refcount, field, var, dying>>
  PROVE  Safety'
<1>1. ASSUME NEW u \in Threads, NEW w \in Vars
      PROVE  Target'[<<"var", u, w>>] = Target[<<"var", u, w>>]
  BY TargetCases, TargetCasesNext
<1>2. ASSUME NEW q \in Objs, NEW j \in Fields
      PROVE  Target'[<<"field", q, j>>] = Target[<<"field", q, j>>]
  BY TargetCases, TargetCasesNext
<1>3. ASSUME NEW u \in Threads
      PROVE  Target'[<<"saved", u, Null>>] = Target[<<"saved", u, Null>>]
  BY TargetCases, TargetCasesNext
<1> QED
  BY <1>1, <1>2, <1>3, SlotCases, FrameStep

LEMMA CopyConstructSafety ==
  ASSUME IInv, NEW t \in Threads, NEW v \in Vars, NEW p \in Objs,
         CopyConstruct(t, v, p)
  PROVE  Safety'
<1> USE DEF IInv
<1>1. /\ pc[t] = "idle" /\ pc'[t] = "copy" /\ tmp[t] = Null
      /\ \A u \in Threads \ {t} :
           pc'[u] = pc[u] /\ dst'[u] = dst[u] /\ tmp'[u] = tmp[u]
      /\ UNCHANGED <<heap, refcount, field, var, dying>>
  BY DEF CopyConstruct, Idle, Phases, TypeOK
<1> QED
  BY <1>1, ReadStep

LEMMA CopyAssignSafety ==
  ASSUME IInv, NEW t \in Threads, NEW v \in Vars, NEW p \in Pointers,
         CopyAssign(t, v, p)
  PROVE  Safety'
<1> USE DEF IInv
<1>1. /\ pc[t] = "idle" /\ pc'[t] = "assign" /\ tmp[t] = Null
      /\ \A u \in Threads \ {t} :
           pc'[u] = pc[u] /\ dst'[u] = dst[u] /\ tmp'[u] = tmp[u]
      /\ UNCHANGED <<heap, refcount, field, var, dying>>
  BY DEF CopyAssign, Idle, Phases, TypeOK
<1> QED
  BY <1>1, ReadStep

LEMMA CountCopySafety ==
  ASSUME IInv, NEW t \in Threads, CountCopy(t)
  PROVE  Safety'
<1> USE DEF IInv
<1> PICK v \in Vars : v = dst[t]
  BY DEF CountCopy, Phases
<1> PICK p \in Objs : p = tmp[t]
  BY DEF CountCopy, Phases
<1> DEFINE s == <<"var", t, v>>
<1>1. /\ pc[t] = "copy" /\ pc'[t] = "idle" /\ tmp'[t] = Null
      /\ var[t][v] = Null /\ var'[t][v] = p
      /\ \A u \in Threads \ {t} :
           pc'[u] = pc[u] /\ dst'[u] = dst[u] /\ tmp'[u] = tmp[u]
      /\ \A u \in Threads, w \in Vars : <<"var", u, w>> # s => var'[u][w] = var[u][w]
      /\ UNCHANGED <<heap, field, dying>>
      /\ Increment(p)
  BY DEF CountCopy, Phases, TypeOK
<1>2. heap[p] = "live" /\ Refs(p) # {}
  <2>1. p \in Sources(t) /\ p # Null
    BY <1>1, RcpAssumption DEF Halfway
  <2> QED
    BY <1>1, <2>1, SourcesLive DEF Safety
<1>3. s \in Slots /\ Target[s] = Null /\ Target'[s] = p
  BY <1>1, SlotCases, TargetCases, TargetCasesNext
<1>4. \A x \in Slots \ {s} : Target'[x] = Target[x]
  <2>1. ASSUME NEW u \in Threads, NEW w \in Vars, <<"var", u, w>> # s
        PROVE  Target'[<<"var", u, w>>] = Target[<<"var", u, w>>]
    BY <1>1, <2>1, TargetCases, TargetCasesNext
  <2>2. ASSUME NEW q \in Objs, NEW j \in Fields
        PROVE  Target'[<<"field", q, j>>] = Target[<<"field", q, j>>]
    BY <1>1, TargetCases, TargetCasesNext
  <2>3. ASSUME NEW u \in Threads
        PROVE  Target'[<<"saved", u, Null>>] = Target[<<"saved", u, Null>>]
    BY <1>1, TargetCases, TargetCasesNext
  <2> QED
    BY <2>1, <2>2, <2>3, SlotCases
<1> HIDE DEF s
<1> QED
  BY <1>1, <1>2, <1>3, <1>4, GainStep

LEMMA CountAssignSafety ==
  ASSUME IInv, NEW t \in Threads, CountAssign(t)
  PROVE  Safety'
<1> USE DEF IInv
<1> PICK p \in Pointers : p = tmp[t]
  BY DEF TypeOK
<1> DEFINE s == <<"saved", t, Null>>
<1>1. /\ pc[t] = "assign" /\ pc'[t] = "drop"
      /\ \A u \in Threads \ {t} : pc'[u] = pc[u]
      /\ UNCHANGED <<heap, field, var, tmp, dst, dying>>
      /\ Increment(p)
  BY DEF CountAssign, TypeOK
<1>2. s \in Slots /\ Target[s] = Null /\ Target'[s] = p
  BY <1>1, SlotCases, TargetCases, TargetCasesNext
<1>3. \A x \in Slots \ {s} : Target'[x] = Target[x]
  <2>1. ASSUME NEW u \in Threads, NEW w \in Vars
        PROVE  Target'[<<"var", u, w>>] = Target[<<"var", u, w>>]
    BY <1>1, TargetCases, TargetCasesNext
  <2>2. ASSUME NEW q \in Objs, NEW j \in Fields
        PROVE  Target'[<<"field", q, j>>] = Target[<<"field", q, j>>]
    BY <1>1, TargetCases, TargetCasesNext
  <2>3. ASSUME NEW u \in Threads, <<"saved", u, Null>> # s
        PROVE  Target'[<<"saved", u, Null>>] = Target[<<"saved", u, Null>>]
    BY <1>1, <2>3, TargetCases, TargetCasesNext
  <2> QED
    BY <2>1, <2>2, <2>3, SlotCases
<1>4. CASE p = Null
  <2>1. refcount' = refcount
    BY <1>1, <1>4 DEF Increment
  <2>2. \A x \in Slots : Target'[x] = Target[x]
    BY <1>2, <1>3, <1>4
  <2> QED
    BY <1>1, <2>1, <2>2, FrameStep
<1>5. CASE p # Null
  <2>1. p \in Objs /\ heap[p] = "live" /\ Refs(p) # {}
    <3>1. p \in Sources(t)
      BY <1>1, <1>5 DEF Halfway
    <3> QED
      BY <1>1, <1>5, <3>1, SourcesLive DEF Safety
  <2> HIDE DEF s
  <2> QED
    BY <1>1, <1>2, <1>3, <2>1, GainStep
<1> QED
  BY <1>4, <1>5

LEMMA ResetSafety ==
  ASSUME IInv, NEW t \in Threads, NEW v \in Vars, Reset(t, v)
  PROVE  Safety'
<1> USE DEF IInv
<1> DEFINE s == <<"var", t, v>>
<1> PICK p \in Objs : p = var[t][v]
  BY DEF Reset, TypeOK, Pointers
<1>1. /\ pc[t] = "idle" /\ pc'[t] = "store" /\ dst'[t] = v /\ tmp[t] = Null
      /\ \A u \in Threads \ {t} : pc'[u] = pc[u] /\ dst'[u] = dst[u]
      /\ UNCHANGED <<heap, field, var, tmp>>
      /\ Decrement(t, p)
  BY DEF Reset, Idle, Phases, TypeOK
<1>2. s \in Slots /\ Target[s] = p /\ Target'[s] = Null
  BY <1>1, SlotCases, TargetCases, TargetCasesNext
<1>3. \A x \in Slots \ {s} : Target'[x] = Target[x]
  <2>1. ASSUME NEW u \in Threads, NEW w \in Vars, <<"var", u, w>> # s
        PROVE  Target'[<<"var", u, w>>] = Target[<<"var", u, w>>]
    BY <1>1, <2>1, TargetCases, TargetCasesNext
  <2>2. ASSUME NEW q \in Objs, NEW j \in Fields
        PROVE  Target'[<<"field", q, j>>] = Target[<<"field", q, j>>]
    BY <1>1, TargetCases, TargetCasesNext
  <2>3. ASSUME NEW u \in Threads
        PROVE  Target'[<<"saved", u, Null>>] = Target[<<"saved", u, Null>>]
    BY <1>1, TargetCases, TargetCasesNext
  <2> QED
    BY <2>1, <2>2, <2>3, SlotCases
<1> HIDE DEF s
<1> QED
  BY <1>1, <1>2, <1>3, LoseStep

LEMMA DropOldSafety ==
  ASSUME IInv, NEW t \in Threads, DropOld(t)
  PROVE  Safety'
<1> USE DEF IInv
<1> PICK v \in Vars : v = dst[t]
  BY DEF DropOld, Phases
<1> PICK p \in Pointers : p = var[t][v]
  BY DEF TypeOK
<1> DEFINE s == <<"var", t, v>>
<1>1. /\ pc[t] = "drop" /\ pc'[t] = "store"
      /\ \A u \in Threads \ {t} : pc'[u] = pc[u]
      /\ UNCHANGED <<heap, field, var, tmp, dst>>
      /\ Decrement(t, p)
  BY DEF DropOld, TypeOK
<1>2. s \in Slots /\ Target[s] = p /\ Target'[s] = Null
  BY <1>1, SlotCases, TargetCases, TargetCasesNext
<1>3. \A x \in Slots \ {s} : Target'[x] = Target[x]
  <2>1. ASSUME NEW u \in Threads, NEW w \in Vars, <<"var", u, w>> # s
        PROVE  Target'[<<"var", u, w>>] = Target[<<"var", u, w>>]
    BY <1>1, <2>1, TargetCases, TargetCasesNext
  <2>2. ASSUME NEW q \in Objs, NEW j \in Fields
        PROVE  Target'[<<"field", q, j>>] = Target[<<"field", q, j>>]
    BY <1>1, TargetCases, TargetCasesNext
  <2>3. ASSUME NEW u \in Threads
        PROVE  Target'[<<"saved", u, Null>>] = Target[<<"saved", u, Null>>]
    BY <1>1, TargetCases, TargetCasesNext
  <2> QED
    BY <2>1, <2>2, <2>3, SlotCases
<1>4. CASE p = Null
  <2>1. refcount' = refcount /\ dying' = dying
    BY <1>1, <1>4 DEF Decrement
  <2>2. \A x \in Slots : Target'[x] = Target[x]
    BY <1>2, <1>3, <1>4
  <2> QED
    BY <1>1, <2>1, <2>2, FrameStep
<1>5. CASE p # Null
  <2>1. p \in Objs
    BY <1>5 DEF Pointers
  <2> HIDE DEF s
  <2> QED
    BY <1>1, <1>2, <1>3, <2>1, LoseStep
<1> QED
  BY <1>4, <1>5

LEMMA MoveAssignSafety ==
  ASSUME IInv, NEW t \in Threads, NEW v \in Vars, NEW w \in Vars,
         MoveAssign(t, v, w)
  PROVE  Safety'
<1> USE DEF IInv
<1> DEFINE a == <<"var", t, v>>
           b == <<"var", t, w>>
<1>1. /\ pc[t] = "idle" /\ v # w
      /\ var'[t][v] = var[t][w] /\ var'[t][w] = var[t][v]
      /\ \A u \in Threads, x \in Vars :
           <<"var", u, x>> # a /\ <<"var", u, x>> # b => var'[u][x] = var[u][x]
      /\ UNCHANGED <<heap, refcount, field, pc, tmp, dst, dying>>
  BY DEF MoveAssign, Idle, TypeOK
<1>2. /\ a \in Slots /\ b \in Slots /\ a # b
      /\ Target'[a] = Target[b] /\ Target'[b] = Target[a]
  BY <1>1, SlotCases, TargetCases, TargetCasesNext
<1>3. \A x \in Slots \ {a, b} : Target'[x] = Target[x]
  <2>1. ASSUME NEW u \in Threads, NEW x \in Vars,
               <<"var", u, x>> # a, <<"var", u, x>> # b
        PROVE  Target'[<<"var", u, x>>] = Target[<<"var", u, x>>]
    BY <1>1, <2>1, TargetCases, TargetCasesNext
  <2>2. ASSUME NEW q \in Objs, NEW j \in Fields
        PROVE  Target'[<<"field", q, j>>] = Target[<<"field", q, j>>]
    BY <1>1, TargetCases, TargetCasesNext
  <2>3. ASSUME NEW u \in Threads
        PROVE  Target'[<<"saved", u, Null>>] = Target[<<"saved", u, Null>>]
    BY <1>1, TargetCases, TargetCasesNext
  <2> QED
    BY <2>1, <2>2, <2>3, SlotCases
<1> HIDE DEF a, b
<1> QED
  BY <1>1, <1>2, <1>3, ExchangeStep

LEMMA HandOverSafety ==
  ASSUME IInv, NEW t \in Threads, NEW v \in Vars, NEW u \in Threads,
         NEW w \in Vars, HandOver(t, v, u, w)
  PROVE  Safety'
<1> USE DEF IInv
<1> DEFINE a == <<"var", t, v>>
           b == <<"var", u, w>>
<1>1. /\ pc[t] = "idle" /\ pc[u] = "idle" /\ t # u
      /\ var[u][w] = Null /\ var'[t][v] = Null /\ var'[u][w] = var[t][v]
      /\ \A y \in Threads, x \in Vars :
           <<"var", y, x>> # a /\ <<"var", y, x>> # b => var'[y][x] = var[y][x]
      /\ UNCHANGED <<heap, refcount, field, pc, tmp, dst, dying>>
  <2>1. t # u /\ var' = [[var EXCEPT ![u] = [@ EXCEPT ![w] = var[t][v]]]
                              EXCEPT ![t] = [@ EXCEPT ![v] = Null]]
    BY DEF HandOver
  <2>2. /\ var'[t] = [var[t] EXCEPT ![v] = Null]
        /\ var'[u] = [var[u] EXCEPT ![w] = var[t][v]]
        /\ \A y \in Threads \ {t, u} : var'[y] = var[y]
    BY <2>1 DEF TypeOK
  <2>3. var'[t][v] = Null /\ \A x \in Vars \ {v} : var'[t][x] = var[t][x]
    BY <2>2 DEF TypeOK
  <2>4. var'[u][w] = var[t][v] /\ \A x \in Vars \ {w} : var'[u][x] = var[u][x]
    BY <2>2 DEF TypeOK
  <2>5. ASSUME NEW y \in Threads, NEW x \in Vars,
               <<"var", y, x>> # a, <<"var", y, x>> # b
        PROVE  var'[y][x] = var[y][x]
    BY <2>2, <2>3, <2>4, <2>5
  <2>6. /\ pc[t] = "idle" /\ pc[u] = "idle" /\ var[u][w] = Null
        /\ UNCHANGED <<heap, refcount, field, pc, tmp, dst, dying>>
    BY DEF HandOver, Idle
  <2> QED
    BY <2>1, <2>3, <2>4, <2>5, <2>6
<1>2. /\ a \in Slots /\ b \in Slots /\ a # b
      /\ Target'[a] = Target[b] /\ Target'[b] = Target[a]
  BY <1>1, SlotCases, TargetCases, TargetCasesNext
<1>3. \A x \in Slots \ {a, b} : Target'[x] = Target[x]
  <2>1. ASSUME NEW y \in Threads, NEW x \in Vars,
               <<"var", y, x>> # a, <<"var", y, x>> # b
        PROVE  Target'[<<"var", y, x>>] = Target[<<"var", y, x>>]
    BY <1>1, <2>1, TargetCases, TargetCasesNext
  <2>2. ASSUME NEW q \in Objs, NEW j \in Fields
        PROVE  Target'[<<"field", q, j>>] = Target[<<"field", q, j>>]
    BY <1>1, TargetCases, TargetCasesNext
  <2>3. ASSUME NEW y \in Threads
        PROVE  Target'[<<"saved", y, Null>>] = Target[<<"saved", y, Null>>]
    BY <1>1, TargetCases, TargetCasesNext
  <2> QED
    BY <2>1, <2>2, <2>3, SlotCases
<1> HIDE DEF a, b
<1> QED
  BY <1>1, <1>2, <1>3, ExchangeStep

LEMMA StoreSafety ==
  ASSUME IInv, NEW t \in Threads, Store(t)
  PROVE  Safety'
<1> USE DEF IInv
<1> PICK v \in Vars : v = dst[t]
  BY DEF Store, Phases
<1> DEFINE a == <<"var", t, v>>
           b == <<"saved", t, Null>>
<1>1. /\ pc[t] = "store" /\ pc'[t] = "idle" /\ tmp'[t] = Null
      /\ var'[t][v] = tmp[t]
      /\ \A u \in Threads \ {t} :
           pc'[u] = pc[u] /\ dst'[u] = dst[u] /\ tmp'[u] = tmp[u]
      /\ \A y \in Threads, x \in Vars :
           <<"var", y, x>> # a => var'[y][x] = var[y][x]
      /\ UNCHANGED <<heap, refcount, field, dying>>
  BY DEF Store, TypeOK
<1>2. /\ a \in Slots /\ b \in Slots /\ a # b
      /\ Target'[a] = Target[b] /\ Target'[b] = Target[a]
  BY <1>1, SlotCases, TargetCases, TargetCasesNext
<1>3. \A x \in Slots \ {a, b} : Target'[x] = Target[x]
  <2>1. ASSUME NEW y \in Threads, NEW x \in Vars, <<"var", y, x>> # a
        PROVE  Target'[<<"var", y, x>>] = Target[<<"var", y, x>>]
    BY <1>1, <2>1, TargetCases, TargetCasesNext
  <2>2. ASSUME NEW q \in Objs, NEW j \in Fields
        PROVE  Target'[<<"field", q, j>>] = Target[<<"field", q, j>>]
    BY <1>1, TargetCases, TargetCasesNext
  <2>3. ASSUME NEW y \in Threads, <<"saved", y, Null>> # b
        PROVE  Target'[<<"saved", y, Null>>] = Target[<<"saved", y, Null>>]
    BY <1>1, <2>3, TargetCases, TargetCasesNext
  <2> QED
    BY <2>1, <2>2, <2>3, SlotCases
<1> HIDE DEF a, b
<1> QED
  BY <1>1, <1>2, <1>3, ExchangeStep

(* A destructor that begins or ends changes no reference.                  *)
LEMMA SameTarget ==
  ASSUME UNCHANGED <<field, var, pc, tmp, dst>>
  PROVE  \A o : Refs(o)' = Refs(o)
<1>1. ASSUME NEW u \in Threads, NEW w \in Vars
      PROVE  Target'[<<"var", u, w>>] = Target[<<"var", u, w>>]
  BY TargetCases, TargetCasesNext
<1>2. ASSUME NEW q \in Objs, NEW j \in Fields
      PROVE  Target'[<<"field", q, j>>] = Target[<<"field", q, j>>]
  BY TargetCases, TargetCasesNext
<1>3. ASSUME NEW u \in Threads
      PROVE  Target'[<<"saved", u, Null>>] = Target[<<"saved", u, Null>>]
  BY TargetCases, TargetCasesNext
<1> QED
  BY <1>1, <1>2, <1>3, SlotCases, SameRefs

LEMMA BeginDeleteSafety ==
  ASSUME IInv, NEW t \in Threads, BeginDelete(t)
  PROVE  Safety'
<1> USE DEF IInv, Safety
<1>1. dying[t] \in Seq(Objs) /\ dying[t] # <<>> /\ IsInjective(dying[t])
  BY DEF BeginDelete, TypeOK, DestroyedOnce
<1>2. Head(dying[t]) \in Objs /\ Head(dying[t]) \in Deleting(t)
  BY <1>1, PopProperties DEF Deleting
<1> PICK o \in Objs : o = Head(dying[t])
  BY <1>2
<1>3. /\ heap[o] = "live" /\ heap' = [heap EXCEPT ![o] = "dying"]
      /\ UNCHANGED <<refcount, dying>>
  BY DEF BeginDelete
<1>4. \A q : Refs(q)' = Refs(q)
  BY SameTarget DEF BeginDelete
<1>5. Refs(o) = {}
  BY <1>2, <1>3 DEF DestroyedOnce
<1>6. CountExact'
  BY <1>3, <1>4 DEF CountExact
<1>7. KeptLive'
  BY <1>3, <1>4, <1>5 DEF KeptLive, TypeOK
<1>8. \A q \in Objs : (heap'[q] = "dying" \/ (heap'[q] = "live" /\ Refs(q)' = {}))
                        <=> (heap[q] = "dying" \/ (heap[q] = "live" /\ Refs(q) = {}))
  BY <1>3, <1>4, <1>5 DEF TypeOK
<1>9. DestroyedOnce'
  BY <1>3, <1>8 DEF DestroyedOnce, Deleting
<1> QED
  BY <1>6, <1>7, <1>9

LEMMA DestroyFieldSafety ==
  ASSUME IInv, NEW t \in Threads, NEW k \in Fields, DestroyField(t, k)
  PROVE  Safety'
<1> USE DEF IInv
<1>1. Head(dying[t]) \in Objs
  BY HeadTailProperties DEF DestroyField, TypeOK
<1> PICK o \in Objs : o = Head(dying[t])
  BY <1>1
<1> PICK p \in Objs : p = field[o][k]
  BY DEF DestroyField, TypeOK, Pointers
<1> DEFINE s == <<"field", o, k>>
<1>2. /\ field'[o][k] = Null
      /\ \A q \in Objs, j \in Fields :
           <<"field", q, j>> # s => field'[q][j] = field[q][j]
      /\ UNCHANGED <<heap, var, pc, tmp, dst>>
      /\ Decrement(t, p)
  BY DEF DestroyField, TypeOK
<1>3. s \in Slots /\ Target[s] = p /\ Target'[s] = Null
  BY <1>2, SlotCases, TargetCases, TargetCasesNext
<1>4. \A x \in Slots \ {s} : Target'[x] = Target[x]
  <2>1. ASSUME NEW u \in Threads, NEW w \in Vars
        PROVE  Target'[<<"var", u, w>>] = Target[<<"var", u, w>>]
    BY <1>2, TargetCases, TargetCasesNext
  <2>2. ASSUME NEW q \in Objs, NEW j \in Fields, <<"field", q, j>> # s
        PROVE  Target'[<<"field", q, j>>] = Target[<<"field", q, j>>]
    BY <1>2, <2>2, TargetCases, TargetCasesNext
  <2>3. ASSUME NEW u \in Threads
        PROVE  Target'[<<"saved", u, Null>>] = Target[<<"saved", u, Null>>]
    BY <1>2, TargetCases, TargetCasesNext
  <2> QED
    BY <2>1, <2>2, <2>3, SlotCases
<1> HIDE DEF s
<1> QED
  BY <1>2, <1>3, <1>4, LoseStep

LEMMA FreeSafety ==
  ASSUME IInv, NEW t \in Threads, Free(t)
  PROVE  Safety'
<1> USE DEF IInv, Safety
<1>1. dying[t] \in Seq(Objs) /\ dying[t] # <<>> /\ IsInjective(dying[t])
  BY DEF Free, TypeOK, DestroyedOnce
<1>2. /\ Head(dying[t]) \in Objs /\ Head(dying[t]) \in Deleting(t)
      /\ Range(Tail(dying[t])) = Deleting(t) \ {Head(dying[t])}
      /\ IsInjective(Tail(dying[t]))
  BY <1>1, PopProperties DEF Deleting
<1> PICK o \in Objs : o = Head(dying[t])
  BY <1>2
<1>3. /\ heap[o] = "dying" /\ heap' = [heap EXCEPT ![o] = "free"]
      /\ dying'[t] = Tail(dying[t])
      /\ \A u \in Threads \ {t} : dying'[u] = dying[u]
      /\ UNCHANGED refcount
  BY DEF Free, TypeOK
<1>4. \A q : Refs(q)' = Refs(q)
  BY SameTarget DEF Free
<1>5. CountExact'
  BY <1>3, <1>4 DEF CountExact
<1>6. KeptLive'
  BY <1>3, <1>4 DEF KeptLive, TypeOK
<1>7. /\ Deleting(t)' = Deleting(t) \ {o}
      /\ \A u \in Threads \ {t} : Deleting(u)' = Deleting(u)
  BY <1>2, <1>3 DEF Deleting
<1>8. \A u \in Threads : u # t => o \notin Deleting(u)
  BY <1>2 DEF DestroyedOnce
<1>9. \A u \in Threads : IsInjective(dying'[u])
  BY <1>2, <1>3 DEF DestroyedOnce
<1>10. \A u, w \in Threads : u # w => Deleting(u)' \cap Deleting(w)' = {}
  BY <1>7 DEF DestroyedOnce
<1>11. ASSUME NEW q \in Objs
       PROVE  (\E u \in Threads : q \in Deleting(u)')
                <=> (heap'[q] = "dying" \/ (heap'[q] = "live" /\ Refs(q)' = {}))
  <2>1. CASE q = o
    BY <2>1, <1>3, <1>7, <1>8 DEF TypeOK
  <2>2. CASE q # o
    <3>1. heap'[q] = heap[q] /\ Refs(q)' = Refs(q)
      BY <2>2, <1>3, <1>4 DEF TypeOK
    <3>2. \A u \in Threads : q \in Deleting(u)' <=> q \in Deleting(u)
      BY <2>2, <1>7
    <3> QED
      BY <3>1, <3>2 DEF DestroyedOnce
  <2> QED
    BY <2>1, <2>2
<1>12. DestroyedOnce'
  BY <1>9, <1>10, <1>11 DEF DestroyedOnce
<1> QED
  BY <1>5, <1>6, <1>12

LEMMA SafetyStep ==
  ASSUME IInv, [Next]_vars
  PROVE  Safety'
<1>1. CASE UNCHANGED vars
  <2>1. \A o : Refs(o)' = Refs(o)
    BY <1>1, SameTarget DEF vars
  <2> QED
    BY <1>1, <2>1 DEF vars, IInv, Safety, CountExact, KeptLive, DestroyedOnce, Deleting
<1>2. CASE Next
  BY <1>2, NewSafety, CopyConstructSafety, CopyAssignSafety, ResetSafety,
     CountCopySafety, CountAssignSafety,
     MoveAssignSafety, HandOverSafety, BuildFieldSafety, PublishSafety,
     DropOldSafety, BeginDeleteSafety, DestroyFieldSafety, FreeSafety,
     StoreSafety DEF Next, Start, Continue
<1> QED
  BY <1>1, <1>2

-----------------------------------------------------------------------------
(* Halfway is inductive.                                                   *)

(* What a variable holds is live, unless a drop has made it stale.         *)
LEMMA HeldLive ==
  ASSUME IInv, NEW t \in Threads, NEW v \in Vars,
         pc[t] # "store", var[t][v] # Null
  PROVE  var[t][v] \in Objs /\ heap[var[t][v]] = "live"
<1>1. var[t][v] \in Sources(t)
  BY DEF Sources
<1> QED
  BY <1>1, SourcesLive DEF IInv, Safety

(* Nothing that is not live is held: a thread in the middle of a drop      *)
(* still finds what it has read, when its variables are as before and no   *)
(* live object changed.                                                    *)
LEMMA SourcesKept ==
  ASSUME IInv, NEW t \in Threads, pc[t] # "store", var'[t] = var[t],
         \A o \in Objs : heap[o] = "live" => field'[o] = field[o]
  PROVE  Sources(t)' = Sources(t)
<1>1. \A v \in Vars : var[t][v] # Null => /\ var[t][v] \in Objs
                                          /\ field'[var[t][v]] = field[var[t][v]]
  BY HeldLive
<1>2. {var'[t][v] : v \in Vars} = {var[t][v] : v \in Vars}
  OBVIOUS
<1>3. \A o \in {var[t][v] : v \in Vars} \ {Null} : field'[o] = field[o]
  BY <1>1
<1>4. ASSUME NEW x
      PROVE  x \in Sources(t)' <=> x \in Sources(t)
  <2>1. x \in Sources(t) <=>
          \/ x \in {var[t][v] : v \in Vars}
          \/ \E o \in {var[t][v] : v \in Vars} \ {Null}, k \in Fields : x = field[o][k]
    BY DEF Sources
  <2>2. x \in Sources(t)' <=>
          \/ x \in {var'[t][v] : v \in Vars}
          \/ \E o \in {var'[t][v] : v \in Vars} \ {Null}, k \in Fields : x = field'[o][k]
    BY DEF Sources
  <2> QED
    BY <2>1, <2>2, <1>2, <1>3
<1> QED
  BY <1>4

(* A thread that is in the middle of the same thing, with the same         *)
(* variables and the same object under construction, is undisturbed.       *)
LEMMA HalfwayKept ==
  ASSUME IInv, NEW t \in Threads,
         pc'[t] = pc[t], tmp'[t] = tmp[t],
         pc[t] # "idle" /\ pc[t] # "store" => var'[t] = var[t],
         pc[t] = "build" => field'[tmp[t]] = field[tmp[t]],
         \A o \in Objs : heap[o] = "live" => field'[o] = field[o]
  PROVE  /\ pc'[t] = "build" =>
              \A k \in Fields :
                field'[tmp'[t]][k] \in {var'[t][w] : w \in Vars} \cup {Null}
         /\ pc'[t] \in {"copy", "assign", "drop"} =>
              tmp'[t] \in Sources(t)' \cup {Null}
<1>1. CASE pc[t] = "build"
  BY <1>1 DEF IInv, Halfway
<1>2. CASE pc[t] \in {"copy", "assign", "drop"}
  <2>1. Sources(t)' = Sources(t)
    BY <1>2, SourcesKept DEF IInv
  <2> QED
    BY <1>2, <2>1 DEF IInv, Halfway
<1>3. CASE pc[t] \notin {"build", "copy", "assign", "drop"}
  BY <1>3
<1> QED
  BY <1>1, <1>2, <1>3

(* The steps that touch no member of any object and no half-done statement *)
(* but the one of the thread that takes them, which they end.              *)
LEMMA HalfwayOther ==
  ASSUME IInv, NEW t \in Threads,
         pc'[t] \in {"idle", "store"},
         \A u \in Threads \ {t} :
           /\ pc'[u] = pc[u] /\ tmp'[u] = tmp[u]
           /\ pc[u] # "idle" /\ pc[u] # "store" => var'[u] = var[u],
         UNCHANGED field
  PROVE  Halfway'
<1>1. ASSUME NEW u \in Threads \ {t}
      PROVE  /\ pc'[u] = "build" =>
                  \A k \in Fields :
                    field'[tmp'[u]][k] \in {var'[u][w] : w \in Vars} \cup {Null}
             /\ pc'[u] \in {"copy", "assign", "drop"} =>
                  tmp'[u] \in Sources(u)' \cup {Null}
  BY HalfwayKept
<1> QED
  BY <1>1 DEF Halfway

(* The statement a thread begins is sound, and nobody else is disturbed.   *)
LEMMA HalfwayOwn ==
  ASSUME IInv, NEW t \in Threads,
         pc'[t] = "build" =>
           \A k \in Fields :
             field'[tmp'[t]][k] \in {var'[t][w] : w \in Vars} \cup {Null},
         pc'[t] \in {"copy", "assign", "drop"} =>
           tmp'[t] \in Sources(t)' \cup {Null},
         \A u \in Threads \ {t} :
           /\ pc'[u] = pc[u] /\ tmp'[u] = tmp[u] /\ var'[u] = var[u]
           /\ pc[u] = "build" => field'[tmp[u]] = field[tmp[u]],
         \A o \in Objs : heap[o] = "live" => field'[o] = field[o]
  PROVE  Halfway'
<1>1. ASSUME NEW u \in Threads \ {t}
      PROVE  /\ pc'[u] = "build" =>
                  \A k \in Fields :
                    field'[tmp'[u]][k] \in {var'[u][w] : w \in Vars} \cup {Null}
             /\ pc'[u] \in {"copy", "assign", "drop"} =>
                  tmp'[u] \in Sources(u)' \cup {Null}
  BY HalfwayKept
<1> QED
  BY <1>1 DEF Halfway

LEMMA HalfwayStep ==
  ASSUME IInv, [Next]_vars
  PROVE  Halfway'
<1> USE DEF IInv, TypeOK, Pointers
<1>1. CASE UNCHANGED vars
  <2>1. \A t \in Threads : Sources(t)' = Sources(t)
    BY <1>1 DEF vars, Sources
  <2> QED
    BY <1>1, <2>1 DEF vars, Halfway
<1>2. ASSUME NEW t \in Threads, NEW v \in Vars, NEW o \in Objs, New(t, v, o)
      PROVE  Halfway'
  <2>1. \A k \in Fields : field[o][k] = Null
    BY <1>2 DEF New, Phases
  <2>2. \A u \in Threads \ {t} : pc'[u] = pc[u] /\ tmp'[u] = tmp[u]
    BY <1>2 DEF New
  <2>3. pc'[t] = "build" /\ tmp'[t] = o /\ UNCHANGED <<field, var>>
    BY <1>2 DEF New
  <2> QED
    BY <2>1, <2>2, <2>3, HalfwayOwn
<1>3. ASSUME NEW t \in Threads, NEW v \in Vars, NEW p \in Objs,
             CopyConstruct(t, v, p)
      PROVE  Halfway'
  <2>1. Sources(t)' = Sources(t)
    BY <1>3, SourcesKept DEF CopyConstruct, Idle
  <2>2. \A u \in Threads \ {t} : pc'[u] = pc[u] /\ tmp'[u] = tmp[u]
    BY <1>3 DEF CopyConstruct
  <2>3. pc'[t] = "copy" /\ tmp'[t] \in Sources(t) /\ UNCHANGED <<field, var>>
    BY <1>3 DEF CopyConstruct
  <2> QED
    BY <2>1, <2>2, <2>3, HalfwayOwn
<1>4. ASSUME NEW t \in Threads, NEW v \in Vars, NEW p \in Pointers,
             CopyAssign(t, v, p)
      PROVE  Halfway'
  <2>1. Sources(t)' = Sources(t)
    BY <1>4, SourcesKept DEF CopyAssign, Idle
  <2>2. \A u \in Threads \ {t} : pc'[u] = pc[u] /\ tmp'[u] = tmp[u]
    BY <1>4 DEF CopyAssign
  <2>3. pc'[t] = "assign" /\ tmp'[t] \in Sources(t) /\ UNCHANGED <<field, var>>
    BY <1>4 DEF CopyAssign
  <2> QED
    BY <2>1, <2>2, <2>3, HalfwayOwn
<1>5. ASSUME NEW t \in Threads, NEW v \in Vars, Reset(t, v)
      PROVE  Halfway'
  BY <1>5, HalfwayOther DEF Reset, Idle
<1>6. ASSUME NEW t \in Threads, NEW v \in Vars, NEW w \in Vars,
             MoveAssign(t, v, w)
      PROVE  Halfway'
  BY <1>6, HalfwayOther DEF MoveAssign, Idle
<1>7. ASSUME NEW t \in Threads, NEW v \in Vars, NEW w \in Vars,
             NEW u \in Threads, HandOver(t, v, u, w)
      PROVE  Halfway'
  <2>1. \A x \in Threads : pc[x] # "idle" => var'[x] = var[x]
    BY <1>7 DEF HandOver, Idle
  <2>2. pc[t] = "idle" /\ UNCHANGED <<field, pc, tmp>>
    BY <1>7 DEF HandOver, Idle
  <2> QED
    BY <2>1, <2>2, HalfwayOther
<1>8. ASSUME NEW t \in Threads, NEW k \in Fields, NEW v \in Vars,
             BuildField(t, k, v)
      PROVE  Halfway'
  <2>1. /\ tmp[t] \in Objs /\ heap[tmp[t]] = "building" /\ pc[t] = "build"
        /\ UNCHANGED <<var, pc, tmp>>
    BY <1>8 DEF BuildField, Phases
  <2>2. \A o \in Objs \ {tmp[t]} : field'[o] = field[o]
    BY <1>8, <2>1 DEF BuildField
  <2>3. \A j \in Fields :
          field'[tmp[t]][j] = IF j = k THEN var[t][v] ELSE field[tmp[t]][j]
    BY <1>8, <2>1 DEF BuildField
  <2>4. \A u \in Threads \ {t} : pc[u] = "build" => tmp[u] \in Objs \ {tmp[t]}
    BY <2>1 DEF Phases
  <2>5. \A j \in Fields : field'[tmp[t]][j] \in {var[t][w] : w \in Vars} \cup {Null}
    BY <2>1, <2>3 DEF Halfway
  <2>6. \A o \in Objs : heap[o] = "live" => field'[o] = field[o]
    BY <2>1, <2>2
  <2>7. \A u \in Threads \ {t} : pc[u] = "build" => field'[tmp[u]] = field[tmp[u]]
    BY <2>2, <2>4
  <2> HIDE DEF IInv, TypeOK
  <2> QED
    BY <2>1, <2>5, <2>6, <2>7, HalfwayOwn
<1>9. ASSUME NEW t \in Threads, Publish(t)
      PROVE  Halfway'
  BY <1>9, HalfwayOther DEF Publish
<1>10. ASSUME NEW t \in Threads, DropOld(t)
       PROVE  Halfway'
  BY <1>10, HalfwayOther DEF DropOld
<1>11. ASSUME NEW t \in Threads, BeginDelete(t)
       PROVE  Halfway'
  <2>1. pc[t] = "store"
    BY <1>11 DEF BeginDelete, Phases
  <2> QED
    BY <1>11, <2>1, HalfwayOther DEF BeginDelete
<1>12. ASSUME NEW t \in Threads, NEW k \in Fields, DestroyField(t, k)
       PROVE  Halfway'
  <2>1. pc[t] = "store" /\ UNCHANGED <<var, pc, tmp>>
    BY <1>12 DEF DestroyField, Phases
  <2>2. heap[Head(dying[t])] = "dying"
    BY <1>12 DEF DestroyField
  <2>3. \A o \in Objs : heap[o] # "dying" => field'[o] = field[o]
    BY <1>12, <2>2 DEF DestroyField
  <2>4. \A u \in Threads : pc[u] = "build" => field'[tmp[u]] = field[tmp[u]]
    BY <2>3 DEF Phases
  <2> QED
    BY <2>1, <2>3, <2>4, HalfwayOwn
<1>13. ASSUME NEW t \in Threads, Free(t)
       PROVE  Halfway'
  <2>1. pc[t] = "store"
    BY <1>13 DEF Free, Phases
  <2> QED
    BY <1>13, <2>1, HalfwayOther DEF Free
<1>14. ASSUME NEW t \in Threads, Store(t)
       PROVE  Halfway'
  BY <1>14, HalfwayOther DEF Store
<1>15. ASSUME NEW t \in Threads, CountCopy(t)
       PROVE  Halfway'
  BY <1>15, HalfwayOther DEF CountCopy
<1>16. ASSUME NEW t \in Threads, CountAssign(t)
       PROVE  Halfway'
  <2>1. Sources(t)' = Sources(t)
    BY <1>16, SourcesKept DEF CountAssign
  <2>2. \A u \in Threads \ {t} : pc'[u] = pc[u]
    BY <1>16 DEF CountAssign
  <2>3. /\ pc[t] = "assign" /\ pc'[t] = "drop"
        /\ UNCHANGED <<field, var, tmp>>
    BY <1>16 DEF CountAssign
  <2>4. tmp[t] \in Sources(t) \cup {Null}
    BY <2>3 DEF Halfway
  <2> QED
    BY <2>1, <2>2, <2>3, <2>4, HalfwayOwn
<1> QED
  BY <1>1, <1>2, <1>3, <1>4, <1>5, <1>6, <1>7, <1>8, <1>9, <1>10, <1>11,
     <1>12, <1>13, <1>14, <1>15, <1>16 DEF Next, Start, Continue

LEMMA InitIInv == Init => IInv
<1>1. Init => Halfway
  BY DEF Init, Halfway
<1> QED
  BY <1>1, InitType, InitSafety DEF IInv

LEMMA StepIInv ==
  ASSUME IInv, [Next]_vars
  PROVE  IInv'
  BY TypeStep, PhasesStep, SafetyStep, HalfwayStep DEF IInv

-----------------------------------------------------------------------------
(* The theorems.                                                           *)

(* The conjunction of the type invariant, the phases of the statements and *)
(* the safety properties is inductive.                                     *)
THEOREM Inductive == Spec => []IInv
<1>1. Init => IInv
  BY InitIInv
<1>2. IInv /\ [Next]_vars => IInv'
  BY StepIInv
<1> QED
  BY <1>1, <1>2, PTL DEF Spec

(* Every counter is between 0 and the counter's largest value, every       *)
(* pointer is null or an address, and the stacks of destructors hold       *)
(* addresses.                                                              *)
THEOREM TypeCorrect == Spec => []TypeOK
<1>1. IInv => TypeOK
  BY DEF IInv
<1> QED
  BY <1>1, Inductive, PTL

(* For any number of threads, variables and objects, the counter of an     *)
(* object is always the number of references to it (the increments and     *)
(* decrements of symengine_rcp.h are balanced at every instruction).       *)
THEOREM CountsAreExact == Spec => []CountExact
<1>1. IInv => CountExact
  BY DEF IInv, Safety
<1> QED
  BY <1>1, Inductive, PTL

(* Nothing refers to an object whose destructor has begun, and what a      *)
(* thread has read and not yet counted is kept by another reference.       *)
THEOREM NothingDangles == Spec => []NoDangling
<1>1. IInv => NoDangling
  <2>1. ASSUME IInv, NEW t \in Threads, Uncounted(t), tmp[t] # Null
        PROVE  Refs(tmp[t]) # {}
    <3>1. tmp[t] \in Sources(t) /\ pc[t] # "store"
      BY <2>1 DEF IInv, Halfway, Uncounted
    <3> QED
      BY <2>1, <3>1, SourcesLive DEF IInv, Safety
  <2> QED
    BY <2>1 DEF IInv, Safety, KeptLive, NoDangling
<1> QED
  BY <1>1, Inductive, PTL

(* The destructor of an object is run by one thread, once, and by someone  *)
(* as soon as the object has no reference.                                 *)
THEOREM DestroyedByOne == Spec => []DestroyedOnce
<1>1. IInv => DestroyedOnce
  BY DEF IInv, Safety
<1> QED
  BY <1>1, Inductive, PTL

-----------------------------------------------------------------------------
(* Nothing leaks.                                                          *)

(* An object is ranked above its arguments.                                *)
Ranks(rank) ==
  \A o \in Objs, k \in Fields : field[o][k] # Null => rank[field[o][k]] < rank[o]
(* No object is its own ancestor: an argument exists before the object     *)
(* that holds it.                                                          *)
Acyclic == \E n \in Nat : \E rank \in [Objs -> 0..n] : Ranks(rank)

(* The recursion in Reach has a solution.                                  *)
LEMMA ReachSteps ==
  ASSUME TypeOK, NEW S \in SUBSET Pointers
  PROVE  \E step \in [0..Cardinality(Objs) -> SUBSET Pointers] :
           /\ step[0] = S
           /\ \A n \in 1..Cardinality(Objs) : step[n] = Onward(step[n - 1])
           /\ Reach(S) = step[Cardinality(Objs)] \ {Null}
<1> DEFINE N == Cardinality(Objs)
           D == 0..N
           V == SUBSET Pointers
           rank == [n \in D |-> n]
           F == [n \in D |-> [h \in [D -> V] |->
                   IF n = 0 THEN S ELSE Onward(h[n - 1])]]
           Body(g, n) == IF n = 0 THEN S ELSE Onward(g[n - 1])
           g == CHOOSE g : g = [n \in D |-> Body(g, n)]
<1>1. N \in Nat /\ V # {} /\ rank \in [D -> 0..N]
  <2>1. N \in Nat BY RcpAssumption, FS_CardinalityType
  <2> QED BY <2>1
<1>2. ASSUME NEW T \in V PROVE Onward(T) \in V
  BY DEF TypeOK, Onward, Pointers
<1>3. F \in [D -> [[D -> V] -> V]]
  <2>1. ASSUME NEW n \in D, NEW h \in [D -> V]
        PROVE  (IF n = 0 THEN S ELSE Onward(h[n - 1])) \in V
    <3>1. n # 0 => n - 1 \in D BY <1>1
    <3> HIDE DEF V, D
    <3>2. n # 0 => h[n - 1] \in V BY <3>1
    <3>3. S \in V BY DEF V
    <3> QED BY <1>2, <3>2, <3>3
  <2> HIDE DEF V, D
  <2> QED BY <2>1
<1>4. ByRank(D, V, rank, F)
  <2> SUFFICES ASSUME NEW n \in D, NEW h1 \in [D -> V], NEW h2 \in [D -> V],
                      \A e \in D : rank[e] < rank[n] => h1[e] = h2[e]
               PROVE  F[n][h1] = F[n][h2]
    <3> HIDE DEF D, V, rank, F
    <3> QED BY DEF ByRank
  <2>1. n # 0 => n - 1 \in D /\ rank[n - 1] < rank[n] BY <1>1
  <2>2. n # 0 => h1[n - 1] = h2[n - 1] BY <2>1
  <2> HIDE DEF D, V, rank
  <2> QED BY <2>2
<1>5. Recursive(D, V, F)
  <2> HIDE DEF D, V, rank, F
  <2> QED BY <1>1, <1>3, <1>4, BoundedRecursion DEF N
<1>6. PICK x \in [D -> V] : x = [n \in D |-> F[n][x]]
  BY <1>5, Zenon DEF Recursive
<1>7. ASSUME NEW n \in D PROVE F[n][x] = Body(x, n)
  <2>1. x \in [D -> V] BY <1>6
  <2> HIDE DEF D, V, g
  <2>2. F[n] = [h \in [D -> V] |-> IF n = 0 THEN S ELSE Onward(h[n - 1])]
    OBVIOUS
  <2> HIDE DEF F
  <2> QED BY <2>1, <2>2
<1>8. x = [n \in D |-> Body(x, n)]
  <2> HIDE DEF D, V, F, Body
  <2> QED BY <1>6, <1>7
<1>9. g = [n \in D |-> Body(g, n)]
  <2> HIDE DEF D, Body
  <2> QED BY <1>8, Zenon
<1>10. Reach(S) = g[N] \ {Null} BY DEF Reach
<1>11. \A n \in 1..N : g[n] = Onward(g[n - 1])
  <2> SUFFICES ASSUME NEW n \in 1..N PROVE g[n] = Onward(g[n - 1])
    OBVIOUS
  <2>1. n \in D /\ n # 0 BY <1>1
  <2>2. g[n] = Body(g, n)
    <3> HIDE DEF D, Body, g
    <3> QED BY <1>9, <2>1
  <2> HIDE DEF g
  <2> QED BY <2>1, <2>2
<1>12. g[0] = S
  <2>1. 0 \in D BY <1>1
  <2>2. g[0] = Body(g, 0)
    <3> HIDE DEF D, Body, g
    <3> QED BY <1>9, <2>1
  <2> HIDE DEF g
  <2> QED BY <2>2
<1>13. g \in [D -> V]
  <2>1. \A n \in D : g[n] = x[n]
    <3> DEFINE T == {n \in Nat : n \in D => g[n] = x[n]}
    <3>1. 0 \in T
      <4>1. x[0] = Body(x, 0)
        <5>1. 0 \in D BY <1>1
        <5> HIDE DEF D, Body, V, F
        <5> QED BY <1>8, <5>1
      <4> HIDE DEF g
      <4> QED BY <4>1, <1>12
    <3>2. ASSUME NEW n \in Nat, n \in T PROVE n + 1 \in T
      <4> SUFFICES ASSUME n + 1 \in D PROVE g[n + 1] = x[n + 1]
        OBVIOUS
      <4>1. n \in D /\ n + 1 \in 1..N /\ (n + 1) - 1 = n /\ n + 1 # 0 BY <1>1
      <4>2. x[n + 1] = Body(x, n + 1)
        <5> HIDE DEF D, Body, V, F
        <5> QED BY <1>8
      <4>3. x[n + 1] = Onward(x[n])
        <5> HIDE DEF D, V, F
        <5> QED BY <4>1, <4>2
      <4>4. g[n] = x[n] BY <3>2, <4>1
      <4>5. g[n + 1] = Onward(g[n])
        <5> HIDE DEF g
        <5> QED BY <1>11, <4>1
      <4> HIDE DEF g
      <4> QED BY <4>3, <4>4, <4>5
    <3>3. D \subseteq Nat BY <1>1
    <3>4. Nat \subseteq T
      <4> HIDE DEF T
      <4> QED BY <3>1, <3>2, NatSetInduction
    <3> HIDE DEF g, D
    <3> QED BY <3>3, <3>4
  <2>2. g = [n \in D |-> x[n]]
    <3> DEFINE y == [n \in D |-> Body(g, n)]
    <3>1. DOMAIN y = D OBVIOUS
    <3>2. g = y BY <1>9
    <3>3. g = [n \in DOMAIN g |-> g[n]] 
      <4>1. y = [n \in DOMAIN y |-> y[n]] OBVIOUS
      <4> HIDE DEF g, y
      <4> QED BY <3>2, <4>1
    <3> HIDE DEF g, D, y
    <3> QED BY <2>1, <3>1, <3>2, <3>3
  <2> HIDE DEF g, D, V
  <2> QED BY <2>2
<1>14. /\ g \in [0..Cardinality(Objs) -> SUBSET Pointers]
       /\ g[0] = S
       /\ \A n \in 1..Cardinality(Objs) : g[n] = Onward(g[n - 1])
       /\ Reach(S) = g[Cardinality(Objs)] \ {Null}
  <2> HIDE DEF g
  <2> QED BY <1>10, <1>11, <1>12, <1>13
<1> HIDE DEF g
<1> QED BY <1>14
(* What the members of the objects in R point to is in R.                  *)
Closed(R) == \A o \in R, k \in Fields : field[o][k] \in R \cup {Null}

(* One step keeps what there is and adds the members.                      *)
LEMMA OnwardProperties ==
  ASSUME TypeOK, NEW T \in SUBSET Pointers
  PROVE  /\ Onward(T) \in SUBSET Pointers
         /\ T \subseteq Onward(T)
         /\ \A o \in T \ {Null}, k \in Fields : field[o][k] \in Onward(T)
         /\ \A p \in Onward(T) : p \in T \/ \E o \in T \ {Null}, k \in Fields : p = field[o][k]
  BY DEF Onward, TypeOK, Pointers

(* Reach(S) is closed: each step adds an object or adds nothing more, and  *)
(* there are as many steps as objects.                                     *)
LEMMA ReachClosed ==
  ASSUME TypeOK, NEW S \in SUBSET Pointers
  PROVE  /\ Reach(S) \subseteq Objs
         /\ S \ {Null} \subseteq Reach(S)
         /\ Closed(Reach(S))
<1> DEFINE N == Cardinality(Objs)
<1>1. PICK step \in [0..N -> SUBSET Pointers] :
         /\ step[0] = S
         /\ \A n \in 1..N : step[n] = Onward(step[n - 1])
         /\ Reach(S) = step[N] \ {Null}
  BY ReachSteps
<1>2. IsFiniteSet(Objs) /\ N \in Nat
  BY RcpAssumption, FS_CardinalityType
<1> DEFINE R(n) == step[n] \ {Null}
<1>3. ASSUME NEW n \in 0..N PROVE R(n) \in SUBSET Objs
  BY <1>1 DEF Pointers
<1>4. ASSUME NEW n \in 0..N PROVE IsFiniteSet(R(n)) /\ Cardinality(R(n)) \in Nat
  <2> HIDE DEF R
  <2> QED BY <1>2, <1>3, FS_Subset, FS_CardinalityType
<1>5. ASSUME NEW n \in 0..N, n + 1 <= N
      PROVE  /\ R(n) \subseteq R(n + 1)
             /\ \A o \in R(n), k \in Fields : field[o][k] \in R(n + 1) \cup {Null}
             /\ Closed(R(n)) => R(n + 1) = R(n)
  <2>1. n + 1 \in 1..N /\ (n + 1) - 1 = n
    <3>1. n \in Int /\ 0 <= n BY <1>2
    <3> HIDE DEF N, R
    <3> QED BY <1>2, <1>5, <3>1
  <2>2. step[n + 1] = Onward(step[n]) BY <1>1, <2>1
  <2>3. step[n] \in SUBSET Pointers BY <1>1
  <2> QED BY <2>2, <2>3, OnwardProperties DEF Closed
<1> DEFINE T == {n \in Nat : n <= N => S \ {Null} \subseteq R(n) /\ (Closed(R(n)) \/ Cardinality(R(n)) >= n)}
<1>6. 0 \in T
  <2>1. 0 \in 0..N BY <1>2
  <2>2. R(0) = S \ {Null} BY <1>1
  <2>3. Cardinality(R(0)) >= 0
    <3>1. Cardinality(R(0)) \in Nat BY <1>4, <2>1
    <3> HIDE DEF R
    <3> QED BY <3>1
  <2> HIDE DEF R
  <2> QED BY <2>2, <2>3
<1>7. ASSUME NEW n \in Nat, n \in T PROVE n + 1 \in T
  <2> SUFFICES ASSUME n + 1 <= N
               PROVE  /\ S \ {Null} \subseteq R(n + 1)
                      /\ Closed(R(n + 1)) \/ Cardinality(R(n + 1)) >= n + 1
    OBVIOUS
  <2>1. n \in 0..N /\ n + 1 \in 0..N BY <1>2
  <2>2. S \ {Null} \subseteq R(n) /\ (Closed(R(n)) \/ Cardinality(R(n)) >= n)
    <3>1. n <= N BY <2>1
    <3> QED BY <1>7, <3>1
  <2> HIDE DEF T, R
  <2>3. R(n) \subseteq R(n + 1) BY <1>5, <2>1
  <2>4. CASE R(n + 1) = R(n)
    <3>1. Closed(R(n)) BY <1>5, <2>1, <2>4 DEF Closed
    <3> QED BY <2>2, <2>4, <3>1
  <2>5. CASE R(n + 1) # R(n)
    <3>1. Cardinality(R(n)) >= n BY <1>5, <2>1, <2>2, <2>5
    <3>2. /\ IsFiniteSet(R(n + 1)) /\ Cardinality(R(n)) \in Nat
          /\ Cardinality(R(n + 1)) \in Nat
      BY <1>4, <2>1
    <3>3. Cardinality(R(n)) < Cardinality(R(n + 1))
      BY <2>3, <2>5, <3>2, FS_Subset
    <3>4. Cardinality(R(n + 1)) >= n + 1 BY <3>1, <3>2, <3>3
    <3> QED BY <2>2, <2>3, <3>4
  <2> QED BY <2>4, <2>5
<1>8. N \in T
  <2> HIDE DEF T
  <2> QED BY <1>2, <1>6, <1>7, NatSetInduction
<1>9. S \ {Null} \subseteq R(N) /\ (Closed(R(N)) \/ Cardinality(R(N)) >= N)
  BY <1>2, <1>8
<1>10. N \in 0..N BY <1>2
<1>11. ASSUME Cardinality(R(N)) >= N PROVE Closed(R(N))
  <2>1. R(N) = Objs
    <3>1. R(N) \subseteq Objs /\ Cardinality(R(N)) \in Nat BY <1>3, <1>4, <1>10
    <3>2. R(N) # Objs => Cardinality(R(N)) < N
      <4> HIDE DEF R
      <4> QED BY <1>2, <3>1, FS_Subset
    <3> HIDE DEF R
    <3> QED BY <1>2, <1>11, <3>1, <3>2
  <2>2. Closed(Objs) BY DEF Closed, TypeOK, Pointers
  <2> HIDE DEF R
  <2> QED BY <2>1, <2>2
<1>12. Reach(S) = R(N) BY <1>1
<1>13. R(N) \subseteq Objs BY <1>3, <1>10
<1> HIDE DEF R
<1> QED BY <1>9, <1>11, <1>12, <1>13

(* What contains S and the members of its objects contains Reach(S).       *)
LEMMA ReachWithin ==
  ASSUME TypeOK, NEW S \in SUBSET Pointers, NEW R,
         S \ {Null} \subseteq R, Closed(R)
  PROVE  Reach(S) \subseteq R
<1> DEFINE N == Cardinality(Objs)
<1>1. PICK step \in [0..N -> SUBSET Pointers] :
         /\ step[0] = S
         /\ \A n \in 1..N : step[n] = Onward(step[n - 1])
         /\ Reach(S) = step[N] \ {Null}
  BY ReachSteps
<1>2. N \in Nat BY RcpAssumption, FS_CardinalityType
<1> DEFINE T == {n \in Nat : n <= N => step[n] \ {Null} \subseteq R}
<1>3. 0 \in T BY <1>1
<1>4. ASSUME NEW n \in Nat, n \in T PROVE n + 1 \in T
  <2> SUFFICES ASSUME n + 1 <= N PROVE step[n + 1] \ {Null} \subseteq R
    OBVIOUS
  <2>1. n \in 0..N /\ n + 1 \in 1..N /\ (n + 1) - 1 = n /\ n <= N BY <1>2
  <2>2. step[n + 1] = Onward(step[n]) BY <1>1, <2>1
  <2>3. step[n] \in SUBSET Pointers BY <1>1, <2>1
  <2>4. step[n] \ {Null} \subseteq R BY <1>4, <2>1
  <2> HIDE DEF T
  <2> QED BY <2>2, <2>3, <2>4, OnwardProperties DEF Closed
<1>5. N \in T
  <2> HIDE DEF T
  <2> QED BY <1>2, <1>3, <1>4, NatSetInduction
<1> QED BY <1>1, <1>2, <1>5

-----------------------------------------------------------------------------

(* Free objects have no members.                                           *)
LEMMA InitAcyclic == Init => Acyclic
<1> SUFFICES ASSUME Init PROVE Acyclic
  OBVIOUS
<1> DEFINE rank == [o \in Objs |-> 0]
<1>1. rank \in [Objs -> 0..0] /\ 0 \in Nat OBVIOUS
<1>2. Ranks(rank) BY DEF Ranks, Init
<1> HIDE DEF rank
<1> QED BY <1>1, <1>2 DEF Acyclic

(* A constructor stores what exists in what nothing refers to yet.         *)
LEMMA BuildFieldAcyclic ==
  ASSUME IInv, Acyclic, NEW t \in Threads, NEW k \in Fields, NEW v \in Vars,
         BuildField(t, k, v)
  PROVE  Acyclic'
<1> DEFINE o == tmp[t]
           p == var[t][v]
<1>1. /\ o \in Objs /\ heap[o] = "building" /\ p # Null
      /\ field' = [field EXCEPT ![o][k] = p]
  BY DEF BuildField, IInv, Phases
<1>2. p \in Objs /\ heap[p] = "live"
  <2>1. p \in Sources(t) /\ pc[t] # "store" BY DEF Sources, BuildField
  <2> QED BY <1>1, <2>1, SourcesLive DEF IInv, Safety
<1>3. ASSUME NEW q \in Objs, NEW j \in Fields PROVE field[q][j] # o
  <2>1. Target[<<"field", q, j>>] = field[q][j] /\ <<"field", q, j>> \in Slots
    BY TargetCases, SlotCases
  <2> QED BY <1>1, <2>1, TargetLive DEF IInv, Safety
<1>4. PICK n \in Nat : \E rank \in [Objs -> 0..n] : Ranks(rank)
  BY DEF Acyclic
<1>5. PICK rank \in [Objs -> 0..n] : Ranks(rank) BY <1>4
<1> DEFINE new == [rank EXCEPT ![o] = n + n + 1]
<1>6. n + n + 1 \in Nat /\ new \in [Objs -> 0..(n + n + 1)]
  <2>1. n + n + 1 \in Nat OBVIOUS
  <2>2. 0..n \subseteq 0..(n + n + 1) /\ n + n + 1 \in 0..(n + n + 1) OBVIOUS
  <2>3. rank \in [Objs -> 0..(n + n + 1)] BY <2>2
  <2>4. new \in [Objs -> 0..(n + n + 1)] BY <2>2, <2>3
  <2> HIDE DEF new
  <2> QED BY <2>1, <2>4
<1>7. ASSUME NEW q \in Objs, NEW j \in Fields, field'[q][j] # Null
      PROVE  new[field'[q][j]] < new[q]
  <2>1. CASE q = o /\ j = k
    <3>1. field'[q][j] = p BY <1>1, <2>1 DEF IInv, TypeOK
    <3>2. new[p] = rank[p] /\ new[q] = n + n + 1 BY <1>1, <1>2, <2>1
    <3>3. rank[p] \in 0..n BY <1>2
    <3> HIDE DEF new, p
    <3> QED BY <3>1, <3>2, <3>3
  <2>2. CASE ~(q = o /\ j = k)
    <3>1. field'[q][j] = field[q][j] BY <1>1, <2>2 DEF IInv, TypeOK
    <3>2. field[q][j] \in Objs /\ field[q][j] # o BY <1>3, <1>7, <3>1 DEF IInv, TypeOK, Pointers
    <3>3. rank[field[q][j]] < rank[q] BY <1>5, <1>7, <3>1 DEF Ranks
    <3>4. new[field[q][j]] = rank[field[q][j]] BY <3>2
    <3>5. new[q] = IF q = o THEN n + n + 1 ELSE rank[q] OBVIOUS
    <3>6. rank[q] \in 0..n /\ rank[field[q][j]] \in 0..n BY <3>2
    <3> HIDE DEF new
    <3> QED BY <3>1, <3>3, <3>4, <3>5, <3>6
  <2> QED BY <2>1, <2>2
<1>8. \E r \in [Objs -> 0..(n + n + 1)] : \A q \in Objs, j \in Fields : field'[q][j] # Null => r[field'[q][j]] < r[q]
  <2> HIDE DEF new
  <2> QED BY <1>6, <1>7
<1> QED BY <1>6, <1>8 DEF Acyclic, Ranks

(* Every other step leaves the members alone or clears one.                *)
LEMMA FewerFieldsAcyclic ==
  ASSUME Acyclic, \A q \in Objs, j \in Fields : field'[q][j] \in {field[q][j], Null}
  PROVE  Acyclic'
<1>1. ASSUME NEW n \in Nat, NEW rank \in [Objs -> 0..n], Ranks(rank)
      PROVE  Ranks(rank)'
  BY <1>1 DEF Ranks
<1> QED BY <1>1 DEF Acyclic

(* Only BuildField adds a member.                                          *)
LEMMA AcyclicStep ==
  ASSUME IInv, Acyclic, [Next]_vars
  PROVE  Acyclic'
<1>1. CASE UNCHANGED field
  BY <1>1, FewerFieldsAcyclic
<1>2. ASSUME NEW t \in Threads, NEW k \in Fields, DestroyField(t, k)
      PROVE  Acyclic'
  <2>1. field' = [field EXCEPT ![Head(dying[t])][k] = Null]
    BY <1>2 DEF DestroyField
  <2>2. ASSUME NEW q \in Objs, NEW j \in Fields PROVE field'[q][j] \in {field[q][j], Null}
    BY <2>1 DEF IInv, TypeOK
  <2> QED BY <2>2, FewerFieldsAcyclic
<1>3. ASSUME NEW t \in Threads, Start(t) PROVE UNCHANGED field
  BY <1>3 DEF Start, New, CopyConstruct, CopyAssign, Reset, MoveAssign, HandOver
<1>4. ASSUME NEW t \in Threads, Continue(t) PROVE Acyclic'
  <2>1. CASE \E k \in Fields, v \in Vars : BuildField(t, k, v)
    BY <2>1, BuildFieldAcyclic
  <2>2. CASE \E k \in Fields : DestroyField(t, k)
    BY <2>2, <1>2
  <2>3. CASE \/ Publish(t) \/ CountCopy(t) \/ CountAssign(t) \/ DropOld(t)
             \/ BeginDelete(t) \/ Free(t) \/ Store(t)
    BY <2>3, <1>1 DEF Publish, CountCopy, CountAssign, DropOld, BeginDelete, Free, Store
  <2> QED BY <1>4, <2>1, <2>2, <2>3 DEF Continue
<1> QED BY <1>1, <1>3, <1>4 DEF Next, vars

(* An object under construction is the one some thread constructs.         *)
Owned ==
  \A o \in Objs : heap[o] = "building" => \E t \in Threads : pc[t] = "build" /\ tmp[t] = o

(* Who constructs an object goes on until it is published.                 *)
LEMMA OwnedStep ==
  ASSUME IInv, Owned, [Next]_vars
  PROVE  Owned'
<1> USE DEF IInv, TypeOK
<1>1. CASE UNCHANGED <<heap, pc, tmp>>
  BY <1>1 DEF Owned
<1>2. ASSUME NEW t \in Threads, NEW v \in Vars, NEW o \in Objs, New(t, v, o)
      PROVE  Owned'
  BY <1>2 DEF New, Idle, Owned
<1>3. ASSUME NEW t \in Threads, Publish(t) PROVE Owned'
  <2> SUFFICES ASSUME NEW o \in Objs, heap'[o] = "building"
               PROVE  \E u \in Threads : pc'[u] = "build" /\ tmp'[u] = o
    BY DEF Owned
  <2>1. o # tmp[t] /\ heap[o] = "building" BY <1>3 DEF Publish, Phases
  <2>2. PICK u \in Threads : pc[u] = "build" /\ tmp[u] = o BY <2>1 DEF Owned
  <2>3. pc'[u] = pc[u] /\ tmp'[u] = tmp[u] BY <1>3, <2>1, <2>2 DEF Publish
  <2> QED BY <2>2, <2>3
<1>4. ASSUME NEW t \in Threads, BeginDelete(t) \/ Free(t) PROVE Owned'
  <2>1. pc' = pc /\ tmp' = tmp BY <1>4 DEF BeginDelete, Free
  <2>2. ASSUME NEW o \in Objs, heap'[o] = "building" PROVE heap[o] = "building"
    BY <1>4, <2>2 DEF BeginDelete, Free
  <2> QED BY <2>1, <2>2 DEF Owned
<1>5. ASSUME NEW t \in Threads, heap' = heap, pc[t] # "build",
             \A u \in Threads \ {t} : pc'[u] = pc[u] /\ tmp'[u] = tmp[u]
      PROVE  Owned'
  <2> SUFFICES ASSUME NEW o \in Objs, heap[o] = "building"
               PROVE  \E u \in Threads : pc'[u] = "build" /\ tmp'[u] = o
    BY <1>5 DEF Owned
  <2>1. PICK u \in Threads : pc[u] = "build" /\ tmp[u] = o BY DEF Owned
  <2>2. u # t BY <1>5, <2>1
  <2> QED BY <1>5, <2>1, <2>2
<1>6. ASSUME NEW t \in Threads, Start(t) PROVE Owned'
  <2>1. CASE \E v \in Vars, o \in Objs : New(t, v, o)
    BY <2>1, <1>2
  <2>2. CASE ~ \E v \in Vars, o \in Objs : New(t, v, o)
    <3>1. heap' = heap /\ pc[t] # "build"
      BY <1>6, <2>2 DEF Start, CopyConstruct, CopyAssign, Reset, MoveAssign, HandOver, Idle
    <3>2. \A u \in Threads \ {t} : pc'[u] = pc[u] /\ tmp'[u] = tmp[u]
      BY <1>6, <2>2 DEF Start, CopyConstruct, CopyAssign, Reset, MoveAssign, HandOver
    <3> QED BY <3>1, <3>2, <1>5
  <2> QED BY <2>1, <2>2
<1>7. ASSUME NEW t \in Threads, Continue(t) PROVE Owned'
  <2>1. CASE (\E k \in Fields, v \in Vars : BuildField(t, k, v)) \/ (\E k \in Fields : DestroyField(t, k))
    BY <2>1, <1>1 DEF BuildField, DestroyField
  <2>2. CASE CountCopy(t) \/ CountAssign(t) \/ DropOld(t) \/ Store(t)
    <3>1. heap' = heap /\ pc[t] # "build"
      BY <2>2 DEF CountCopy, CountAssign, DropOld, Store
    <3>2. \A u \in Threads \ {t} : pc'[u] = pc[u] /\ tmp'[u] = tmp[u]
      BY <2>2 DEF CountCopy, CountAssign, DropOld, Store
    <3> QED BY <3>1, <3>2, <1>5
  <2>3. CASE Publish(t) \/ BeginDelete(t) \/ Free(t)
    BY <2>3, <1>3, <1>4
  <2> QED BY <1>7, <2>1, <2>2, <2>3 DEF Continue
<1> QED BY <1>1, <1>6, <1>7 DEF Next, vars

(* When all threads are idle, the places that count are variables and      *)
(* members.                                                                *)
LEMMA IdleRefs ==
  ASSUME IInv, Owned, \A t \in Threads : Idle(t), NEW o \in Objs, heap[o] # "free"
  PROVE  /\ heap[o] = "live"
         /\ \/ \E t \in Threads, v \in Vars : var[t][v] = o
            \/ \E q \in Objs, k \in Fields : field[q][k] = o
<1>1. \A t \in Threads : dying[t] = <<>> /\ tmp[t] = Null /\ pc[t] = "idle"
  BY DEF Idle, IInv, Phases
<1>2. ASSUME NEW t \in Threads PROVE Deleting(t) = {}
  BY <1>1 DEF Deleting, Range
<1>3. heap[o] # "building"
  BY <1>1 DEF Owned
<1>4. heap[o] = "live" /\ Refs(o) # {}
  BY <1>2, <1>3 DEF IInv, Safety, DestroyedOnce, TypeOK
<1>5. PICK s \in Slots : Target[s] = o
  BY <1>4 DEF Refs
<1>6. o # Null BY RcpAssumption
<1>7. CASE \E t \in Threads, v \in Vars : s = <<"var", t, v>>
  <2>1. PICK t \in Threads, v \in Vars : s = <<"var", t, v>> BY <1>7
  <2>2. var[t][v] = o BY <1>1, <1>5, <2>1, TargetCases
  <2> QED BY <1>4, <2>2
<1>8. CASE \E q \in Objs, k \in Fields : s = <<"field", q, k>>
  <2>1. PICK q \in Objs, k \in Fields : s = <<"field", q, k>> BY <1>8
  <2>2. field[q][k] = o BY <1>5, <2>1, TargetCases
  <2> QED BY <1>4, <2>2
<1>9. CASE \E t \in Threads : s = <<"saved", t, Null>>
  <2>1. PICK t \in Threads : s = <<"saved", t, Null>> BY <1>9
  <2>2. Target[s] = Null BY <1>1, <2>1, TargetCases
  <2> QED BY <1>5, <1>6, <2>2
<1> QED BY <1>4, <1>7, <1>8, <1>9, SlotCases

(* What exists has a path of members to it from a variable: an object that *)
(* no variable refers to has one that holds it, which is ranked higher,    *)
(* and so on; ranks are bounded.                                           *)
LEMMA LeakFree ==
  ASSUME IInv, Owned, Acyclic
  PROVE  NoLeak
<1> SUFFICES ASSUME \A t \in Threads : Idle(t)
             PROVE  {o \in Objs : heap[o] # "free"} = Reach({var[t][v] : t \in Threads, v \in Vars})
  BY DEF NoLeak
<1> DEFINE S == {var[t][v] : t \in Threads, v \in Vars}
           Used == {o \in Objs : heap[o] # "free"}
<1>1. TypeOK /\ S \in SUBSET Pointers
  BY DEF IInv, TypeOK
<1>2. Reach(S) \subseteq Used
  <2>1. S \ {Null} \subseteq Used
    <3> SUFFICES ASSUME NEW t \in Threads, NEW v \in Vars, var[t][v] # Null
                 PROVE  var[t][v] \in Objs /\ heap[var[t][v]] = "live"
      OBVIOUS
    <3>1. var[t][v] \in Sources(t) /\ pc[t] # "store" BY DEF Sources, Idle
    <3> QED BY <3>1, SourcesLive DEF IInv, Safety
  <2>2. Closed(Used)
    <3> SUFFICES ASSUME NEW o \in Objs, NEW k \in Fields, field[o][k] # Null
                 PROVE  field[o][k] \in Objs /\ heap[field[o][k]] = "live"
      BY DEF Closed
    <3>1. field[o][k] \in Objs BY DEF IInv, TypeOK, Pointers
    <3>2. Target[<<"field", o, k>>] = field[o][k] /\ <<"field", o, k>> \in Slots
      BY TargetCases, SlotCases
    <3> QED BY <3>1, <3>2, TargetLive DEF IInv, Safety
  <2> HIDE DEF S, Used
  <2> QED BY <1>1, <2>1, <2>2, ReachWithin
<1>3. Used \subseteq Reach(S)
  <2> DEFINE R == Reach(S)
  <2>1. S \ {Null} \subseteq R /\ Closed(R)
    <3> HIDE DEF S
    <3> QED BY <1>1, ReachClosed
  <2>2. PICK n \in Nat : \E rank \in [Objs -> 0..n] : Ranks(rank)
    BY DEF Acyclic
  <2>3. PICK rank \in [Objs -> 0..n] : Ranks(rank) BY <2>2
  <2> DEFINE T == {d \in Nat : \A o \in Used : rank[o] + d > n => o \in R}
  <2>4. 0 \in T
    <3>1. ASSUME NEW o \in Used PROVE ~(rank[o] + 0 > n)
      <4>1. rank[o] \in 0..n OBVIOUS
      <4> QED BY <4>1
    <3> HIDE DEF Used, R
    <3> QED BY <3>1
  <2>5. ASSUME NEW d \in Nat, d \in T PROVE d + 1 \in T
    <3> SUFFICES ASSUME NEW o \in Used, rank[o] + (d + 1) > n PROVE o \in R
      OBVIOUS
    <3>0. o \in Objs /\ o # Null BY RcpAssumption
    <3>1. CASE \E t \in Threads, v \in Vars : var[t][v] = o
      <4>1. o \in S \ {Null} BY <3>1, <3>0
      <4> HIDE DEF S, R
      <4> QED BY <4>1, <2>1
    <3>2. CASE \E q \in Objs, k \in Fields : field[q][k] = o
      <4>1. PICK q \in Objs, k \in Fields : field[q][k] = o BY <3>2
      <4>2. rank[o] < rank[q] BY <2>3, <3>0, <4>1 DEF Ranks
      <4>3. rank[q] \in 0..n /\ rank[o] \in 0..n BY <3>0
      <4>4. rank[q] + d > n
        <5> DEFINE a == rank[q]
                   b == rank[o]
        <5>1. a \in Int /\ b \in Int /\ b < a /\ b + (d + 1) > n BY <4>2, <4>3
        <5> HIDE DEF a, b
        <5>2. a + d > n BY <5>1
        <5> QED BY <5>2 DEF a
      <4>5. q \in Used
        BY <3>0, <4>1 DEF IInv, Phases
      <4>6. q \in R BY <2>5, <4>4, <4>5
      <4> HIDE DEF R
      <4> QED BY <2>1, <3>0, <4>1, <4>6 DEF Closed
    <3> HIDE DEF R, S, T
    <3> QED BY <3>1, <3>2, IdleRefs
  <2>6. Nat \subseteq T
    <3> HIDE DEF T
    <3> QED BY <2>4, <2>5, NatSetInduction
  <2>7. ASSUME NEW o \in Used PROVE o \in R
    <3>1. n + 1 \in T BY <2>6
    <3>2. rank[o] \in 0..n OBVIOUS
    <3>3. rank[o] + (n + 1) > n
      <4> DEFINE a == rank[o]
      <4>1. a \in Int /\ 0 <= a BY <3>2
      <4> HIDE DEF a
      <4>2. a + (n + 1) > n BY <4>1
      <4> QED BY <4>2 DEF a
    <3> HIDE DEF R, Used
    <3> QED BY <3>1, <3>3
  <2> QED BY <2>7
<1> QED BY <1>2, <1>3

(* For any number of threads, variables and objects: when every thread is  *)
(* between two statements, the objects in memory are exactly those that    *)
(* the program can still reach; counting frees all others, because a node  *)
(* is made of arguments that exist.                                        *)
THEOREM NothingLeaks == Spec => []NoLeak
<1>1. Init => IInv /\ Owned /\ Acyclic
  <2>1. Init => Owned BY DEF Init, Owned
  <2> QED BY <2>1, InitIInv, InitAcyclic
<1>2. (IInv /\ Owned /\ Acyclic) /\ [Next]_vars => (IInv /\ Owned /\ Acyclic)'
  BY StepIInv, OwnedStep, AcyclicStep
<1>3. IInv /\ Owned /\ Acyclic => NoLeak
  BY LeakFree
<1> QED BY <1>1, <1>2, <1>3, PTL DEF Spec

-----------------------------------------------------------------------------
(* The counted heap takes only the steps SharedHeap allows (the fairness   *)
(* of SharedHeap is checked by TLC on a small heap).                       *)

-----------------------------------------------------------------------------
(* The refinement mapping: what a variable holds, the arguments of an      *)
(* object, and the objects that exist.                                     *)

LEMMA HeldCases ==
  /\ \A t \in Threads, v \in Vars :
       /\ ~ Stale(t, v) => Held[t][v] = var[t][v]
       /\ Stale(t, v) => Held[t][v] = tmp[t]
  /\ \A t \in Threads : pc[t] # "store" => \A v \in Vars : Held[t][v] = var[t][v]
  /\ \A o \in Objs : heap[o] = "live" => Args[o] = field[o]
  BY DEF Held, Args, Stale

(* Outside of the second half of an assignment, what a thread can name is  *)
(* what an RCP expression can copy from.                                   *)
LEMMA SourcesNameable ==
  ASSUME IInv, NEW t \in Threads, pc[t] # "store"
  PROVE  Sources(t) \subseteq Heap!Nameable(t)
<1>1. \A v \in Vars : Held[t][v] = var[t][v]
  BY HeldCases
<1>2. {Held[t][v] : v \in Vars} = {var[t][v] : v \in Vars}
  BY <1>1
<1>3. ASSUME NEW o \in {var[t][v] : v \in Vars} \ {Null}
      PROVE  Args[o] = field[o]
  BY HeldLive, HeldCases
<1>4. Fields = Heap!Fields
  BY DEF Fields, Heap!Fields
<1>5. ASSUME NEW x \in Sources(t)
      PROVE  x \in Heap!Nameable(t)
  <2>1. \/ x \in {var[t][v] : v \in Vars}
        \/ \E o \in {var[t][v] : v \in Vars} \ {Null}, k \in Fields : x = field[o][k]
    BY DEF Sources
  <2>2. \/ x \in {Held[t][v] : v \in Vars}
        \/ \E o \in {Held[t][v] : v \in Vars} \ {Null}, k \in Heap!Fields : x = Args[o][k]
    BY <2>1, <1>2, <1>3, <1>4
  <2> QED
    BY <2>2 DEF Heap!Nameable
<1> QED
  BY <1>5

(* Nothing in the abstract heap refers to an object without references.    *)
LEMMA NoRefsUnreferenced ==
  ASSUME TypeOK, NEW o \in Objs, Refs(o) = {}
  PROVE  Heap!Unreferenced(o)
<1>1. \A s \in Slots : Target[s] # o
  BY DEF Refs
<1>2. ASSUME NEW t \in Threads, NEW v \in Vars
      PROVE  Held[t][v] # o
  <2>1. CASE Stale(t, v)
    <3>1. Target[<<"saved", t, Null>>] = tmp[t]
      BY <2>1, TargetCases DEF Stale
    <3> QED
      BY <2>1, <3>1, <1>1, SlotCases, HeldCases
  <2>2. CASE ~ Stale(t, v)
    <3>1. Target[<<"var", t, v>>] = var[t][v]
      BY <2>2, TargetCases DEF Stale
    <3> QED
      BY <2>2, <3>1, <1>1, SlotCases, HeldCases
  <2> QED
    BY <2>1, <2>2
<1>3. ASSUME NEW p \in Alive, NEW k \in Fields
      PROVE  Args[p][k] # o
  <2>1. p \in Objs /\ Args[p][k] = field[p][k]
    BY HeldCases DEF Alive
  <2>2. Target[<<"field", p, k>>] = field[p][k] /\ <<"field", p, k>> \in Slots
    BY <2>1, SlotCases, TargetCases
  <2> QED
    BY <2>1, <2>2, <1>1
<1> QED
  BY <1>2, <1>3 DEF Heap!Unreferenced, Fields, Heap!Fields

(* The same, after a step.                                                 *)
LEMMA HeldCasesNext ==
  \A t \in Threads, v \in Vars :
    /\ ~ (pc'[t] = "store" /\ dst'[t] = v) => Held'[t][v] = var'[t][v]
    /\ pc'[t] = "store" /\ dst'[t] = v => Held'[t][v] = tmp'[t]
  BY DEF Held, Stale

LEMMA HeldCasesNow ==
  \A t \in Threads, v \in Vars :
    /\ ~ (pc[t] = "store" /\ dst[t] = v) => Held[t][v] = var[t][v]
    /\ pc[t] = "store" /\ dst[t] = v => Held[t][v] = tmp[t]
  BY DEF Held, Stale

LEMMA HeldOther ==
  ASSUME NEW t \in Threads,
         pc'[t] = pc[t], tmp'[t] = tmp[t], dst'[t] = dst[t], var'[t] = var[t]
  PROVE  \A v \in Vars : Held'[t][v] = Held[t][v]
  BY HeldCasesNow, HeldCasesNext

LEMMA HeldPlain ==
  ASSUME NEW t \in Threads, pc[t] # "store", pc'[t] # "store"
  PROVE  \A v \in Vars : Held[t][v] = var[t][v] /\ Held'[t][v] = var'[t][v]
  BY HeldCasesNow, HeldCasesNext

LEMMA HeldType ==
  /\ TypeOK => Held \in [Threads -> [Vars -> Pointers]]
  /\ TypeOK' => Held' \in [Threads -> [Vars -> Pointers]]
  BY DEF TypeOK, Held

LEMMA HeldKept ==
  ASSUME TypeOK, TypeOK', \A t \in Threads, v \in Vars : Held'[t][v] = Held[t][v]
  PROVE  Held' = Held
  BY HeldType

LEMMA HeldSet ==
  ASSUME TypeOK, TypeOK', NEW t \in Threads, NEW v \in Vars,
         \A w \in Vars \ {v} : Held'[t][w] = Held[t][w],
         \A u \in Threads \ {t}, w \in Vars : Held'[u][w] = Held[u][w]
  PROVE  Held' = [Held EXCEPT ![t][v] = Held'[t][v]]
<1>1. Held'[t] = [Held[t] EXCEPT ![v] = Held'[t][v]]
  BY HeldType
<1>2. \A u \in Threads \ {t} : Held'[u] = Held[u]
  BY HeldType
<1> QED
  BY <1>1, <1>2, HeldType

(* A step that makes no object live or dead, and changes no live one.      *)
LEMMA ObjectsKept ==
  ASSUME \A o \in Objs : heap'[o] = "live" <=> heap[o] = "live",
         \A o \in Objs : heap[o] = "live" => field'[o] = field[o]
  PROVE  UNCHANGED <<Args, Alive>>
  BY DEF Args, Alive

-----------------------------------------------------------------------------
(* Each step is a step of SharedHeap or leaves it as it is.                *)

LEMMA NewRefines ==
  ASSUME IInv, IInv', NEW t \in Threads, NEW v \in Vars, NEW o \in Objs,
         New(t, v, o)
  PROVE  UNCHANGED Heap!vars
<1>1. /\ pc[t] = "idle" /\ pc'[t] = "build"
      /\ \A u \in Threads \ {t} : pc'[u] = pc[u] /\ tmp'[u] = tmp[u] /\ dst'[u] = dst[u]
      /\ \A p \in Objs : heap'[p] = "live" <=> heap[p] = "live"
      /\ UNCHANGED <<field, var>>
  BY DEF New, Idle, IInv, TypeOK
<1>2. \A u \in Threads, w \in Vars : Held'[u][w] = Held[u][w]
  BY <1>1, HeldOther, HeldPlain
<1>3. UNCHANGED <<Args, Alive>>
  BY <1>1, ObjectsKept
<1> QED
  BY <1>2, <1>3, HeldKept DEF Heap!vars, IInv

LEMMA CopyConstructRefines ==
  ASSUME IInv, IInv', NEW t \in Threads, NEW v \in Vars, NEW p \in Objs,
         CopyConstruct(t, v, p)
  PROVE  UNCHANGED Heap!vars
<1>1. /\ pc[t] = "idle" /\ pc'[t] = "copy"
      /\ \A u \in Threads \ {t} : pc'[u] = pc[u] /\ tmp'[u] = tmp[u] /\ dst'[u] = dst[u]
      /\ UNCHANGED <<heap, field, var>>
  BY DEF CopyConstruct, Idle, IInv, TypeOK
<1>2. \A u \in Threads, w \in Vars : Held'[u][w] = Held[u][w]
  BY <1>1, HeldOther, HeldPlain
<1>3. UNCHANGED <<Args, Alive>>
  BY <1>1, ObjectsKept
<1> QED
  BY <1>2, <1>3, HeldKept DEF Heap!vars, IInv

LEMMA CopyAssignRefines ==
  ASSUME IInv, IInv', NEW t \in Threads, NEW v \in Vars, NEW p \in Pointers,
         CopyAssign(t, v, p)
  PROVE  UNCHANGED Heap!vars
<1>1. /\ pc[t] = "idle" /\ pc'[t] = "assign"
      /\ \A u \in Threads \ {t} : pc'[u] = pc[u] /\ tmp'[u] = tmp[u] /\ dst'[u] = dst[u]
      /\ UNCHANGED <<heap, field, var>>
  BY DEF CopyAssign, Idle, IInv, TypeOK
<1>2. \A u \in Threads, w \in Vars : Held'[u][w] = Held[u][w]
  BY <1>1, HeldOther, HeldPlain
<1>3. UNCHANGED <<Args, Alive>>
  BY <1>1, ObjectsKept
<1> QED
  BY <1>2, <1>3, HeldKept DEF Heap!vars, IInv

LEMMA CountAssignRefines ==
  ASSUME IInv, IInv', NEW t \in Threads, CountAssign(t)
  PROVE  UNCHANGED Heap!vars
<1>1. /\ pc[t] = "assign" /\ pc'[t] = "drop"
      /\ \A u \in Threads \ {t} : pc'[u] = pc[u]
      /\ UNCHANGED <<heap, field, var, tmp, dst>>
  BY DEF CountAssign, IInv, TypeOK
<1>2. \A u \in Threads, w \in Vars : Held'[u][w] = Held[u][w]
  BY <1>1, HeldOther, HeldPlain
<1>3. UNCHANGED <<Args, Alive>>
  BY <1>1, ObjectsKept
<1> QED
  BY <1>2, <1>3, HeldKept DEF Heap!vars, IInv

LEMMA StoreRefines ==
  ASSUME IInv, IInv', NEW t \in Threads, Store(t)
  PROVE  UNCHANGED Heap!vars
<1>1. pc[t] = "store" /\ dst[t] \in Vars
  BY DEF Store, IInv, Phases
<1>2. /\ pc'[t] = "idle" /\ UNCHANGED <<heap, field>>
      /\ \A u \in Threads \ {t} : /\ pc'[u] = pc[u] /\ tmp'[u] = tmp[u]
                                 /\ dst'[u] = dst[u] /\ var'[u] = var[u]
      /\ \A w \in Vars : var'[t][w] = IF w = dst[t] THEN tmp[t] ELSE var[t][w]
  BY <1>1 DEF Store, IInv, TypeOK
<1>3. \A w \in Vars : Held'[t][w] = Held[t][w]
  BY <1>1, <1>2, HeldCasesNow, HeldCasesNext
<1>4. \A u \in Threads, w \in Vars : Held'[u][w] = Held[u][w]
  BY <1>2, <1>3, HeldOther
<1>5. UNCHANGED <<Args, Alive>>
  BY <1>2, ObjectsKept
<1> QED
  BY <1>4, <1>5, HeldKept DEF Heap!vars, IInv

LEMMA BuildFieldRefines ==
  ASSUME IInv, IInv', NEW t \in Threads, NEW k \in Fields, NEW v \in Vars,
         BuildField(t, k, v)
  PROVE  UNCHANGED Heap!vars
<1>1. heap[tmp[t]] = "building" /\ UNCHANGED <<heap, var, pc, tmp, dst>>
  BY DEF IInv, BuildField, Phases
<1>2. \A o \in Objs : heap[o] = "live" => field'[o] = field[o]
  BY <1>1 DEF BuildField, IInv, TypeOK
<1>3. UNCHANGED Held
  BY <1>1 DEF Held, Stale
<1> QED
  BY <1>1, <1>2, <1>3, ObjectsKept DEF Heap!vars

LEMMA DestroyFieldRefines ==
  ASSUME IInv, IInv', NEW t \in Threads, NEW k \in Fields, DestroyField(t, k)
  PROVE  UNCHANGED Heap!vars
<1>1. heap[Head(dying[t])] = "dying" /\ UNCHANGED <<heap, var, pc, tmp, dst>>
  BY DEF DestroyField
<1>2. \A o \in Objs : heap[o] = "live" => field'[o] = field[o]
  BY <1>1 DEF DestroyField, IInv, TypeOK
<1>3. UNCHANGED Held
  BY <1>1 DEF Held, Stale
<1> QED
  BY <1>1, <1>2, <1>3, ObjectsKept DEF Heap!vars

LEMMA FreeRefines ==
  ASSUME IInv, IInv', NEW t \in Threads, Free(t)
  PROVE  UNCHANGED Heap!vars
<1>1. /\ heap[Head(dying[t])] = "dying"
      /\ heap' = [heap EXCEPT ![Head(dying[t])] = "free"]
      /\ UNCHANGED <<field, var, pc, tmp, dst>>
  BY DEF Free
<1>2. \A o \in Objs : heap'[o] = "live" <=> heap[o] = "live"
  BY <1>1 DEF IInv, TypeOK
<1>3. UNCHANGED Held
  BY <1>1 DEF Held, Stale
<1> QED
  BY <1>1, <1>2, <1>3, ObjectsKept DEF Heap!vars

(* Publication makes the object: its members are still its maker's.        *)
LEMMA PublishRefines ==
  ASSUME IInv, IInv', NEW t \in Threads, Publish(t)
  PROVE  Heap!Next
<1> DEFINE o == tmp[t]
           v == dst[t]
<1>1. pc[t] = "build" /\ UNCHANGED field
  BY DEF Publish
<1>2. o \in Objs /\ v \in Vars /\ heap[o] = "building" /\ var[t][v] = Null
  BY <1>1 DEF Phases, IInv
<1>3. /\ pc'[t] = "idle"
      /\ \A u \in Threads \ {t} : /\ pc'[u] = pc[u] /\ tmp'[u] = tmp[u]
                                 /\ dst'[u] = dst[u] /\ var'[u] = var[u]
      /\ \A w \in Vars : var'[t][w] = IF w = v THEN o ELSE var[t][w]
      /\ \A p \in Objs : heap'[p] = IF p = o THEN "live" ELSE heap[p]
  BY <1>2 DEF Publish, IInv, TypeOK
<1>4. \A w \in Vars : Held[t][w] = var[t][w] /\ Held'[t][w] = var'[t][w]
  BY <1>1, <1>3, HeldPlain
<1>5. \A k \in Heap!Fields : field[o][k] \in {Held[t][w] : w \in Vars} \cup {Null}
  <2>1. \A k \in Fields : field[o][k] \in {var[t][w] : w \in Vars} \cup {Null}
    BY <1>1 DEF Halfway, IInv
  <2>2. {Held[t][w] : w \in Vars} = {var[t][w] : w \in Vars}
    BY <1>4
  <2> QED
    BY <2>1, <2>2 DEF Fields, Heap!Fields
<1>6. Alive' = Alive \cup {o} /\ o \notin Alive
  BY <1>2, <1>3 DEF Alive
<1>7. Args' = [Args EXCEPT ![o] = field[o]]
  BY <1>1, <1>2, <1>3, ZenonT(60) DEF Args
<1>8. Held' = [Held EXCEPT ![t][v] = o]
  <2>1. \A u \in Threads \ {t}, w \in Vars : Held'[u][w] = Held[u][w]
    BY <1>3, HeldOther
  <2> QED
    BY <1>2, <1>3, <1>4, <2>1, HeldSet DEF IInv
<1>9. Heap!Make(t, v, o, field[o])
  BY <1>2, <1>4, <1>5, <1>6, <1>7, <1>8 DEF Heap!Make
<1>10. field[o] \in [Heap!Fields -> Heap!Pointers]
  BY <1>2 DEF Fields, Pointers, Heap!Fields, Heap!Pointers, IInv, TypeOK
<1> QED
  BY <1>2, <1>9, <1>10 DEF Heap!Next

(* A copy, into an empty variable, of a pointer the thread can name.       *)
LEMMA CountCopyRefines ==
  ASSUME IInv, IInv', NEW t \in Threads, CountCopy(t)
  PROVE  Heap!Next
<1> DEFINE p == tmp[t]
           v == dst[t]
<1>1. pc[t] = "copy" /\ p \in Objs /\ v \in Vars /\ UNCHANGED <<heap, field>>
  BY DEF CountCopy, IInv, Phases
<1>2. /\ pc'[t] = "idle"
      /\ \A u \in Threads \ {t} : /\ pc'[u] = pc[u] /\ tmp'[u] = tmp[u]
                                 /\ dst'[u] = dst[u] /\ var'[u] = var[u]
      /\ \A w \in Vars : var'[t][w] = IF w = v THEN p ELSE var[t][w]
  BY <1>1 DEF CountCopy, IInv, TypeOK
<1>3. Held' = [Held EXCEPT ![t][v] = p]
  <2>1. \A w \in Vars : Held[t][w] = var[t][w] /\ Held'[t][w] = var'[t][w]
    BY <1>1, <1>2, HeldPlain
  <2>2. \A u \in Threads \ {t}, w \in Vars : Held'[u][w] = Held[u][w]
    BY <1>2, HeldOther
  <2> QED
    BY <1>1, <1>2, <2>1, <2>2, HeldSet DEF IInv
<1>4. p \in Heap!Nameable(t)
  <2>1. p \in Sources(t)
    BY <1>1, RcpAssumption DEF IInv, Halfway
  <2> QED
    BY <1>1, <2>1, SourcesNameable
<1>5. Heap!Assign(t, v, p)
  BY <1>1, <1>3, <1>4, ObjectsKept DEF Heap!Assign
<1> QED
  BY <1>1, <1>5 DEF Heap!Next, Heap!Pointers

(* An assignment has happened when it drops what the variable held.        *)
LEMMA DropOldRefines ==
  ASSUME IInv, IInv', NEW t \in Threads, DropOld(t)
  PROVE  Heap!Next
<1> DEFINE p == tmp[t]
           v == dst[t]
<1>1. pc[t] = "drop" /\ v \in Vars /\ UNCHANGED <<heap, field, var, tmp, dst>>
  BY DEF DropOld, IInv, Phases
<1>2. pc'[t] = "store" /\ \A u \in Threads \ {t} : pc'[u] = pc[u]
  BY DEF DropOld, IInv, TypeOK
<1>3. Held' = [Held EXCEPT ![t][v] = p]
  <2>1. /\ Held'[t][v] = p
        /\ \A w \in Vars \ {v} : Held'[t][w] = Held[t][w]
    BY <1>1, <1>2, HeldCasesNow, HeldCasesNext
  <2>2. \A u \in Threads \ {t}, w \in Vars : Held'[u][w] = Held[u][w]
    BY <1>1, <1>2, HeldOther
  <2> QED
    BY <1>1, <2>1, <2>2, HeldSet DEF IInv
<1>4. p \in Heap!Nameable(t) \cup {Null}
  BY <1>1, SourcesNameable DEF IInv, Halfway
<1>5. Heap!Assign(t, v, p)
  BY <1>1, <1>3, <1>4, ObjectsKept DEF Heap!Assign
<1>6. p \in Heap!Pointers
  BY DEF IInv, TypeOK, Pointers, Heap!Pointers
<1> QED
  BY <1>1, <1>5, <1>6 DEF Heap!Next

LEMMA ResetRefines ==
  ASSUME IInv, IInv', NEW t \in Threads, NEW v \in Vars, Reset(t, v)
  PROVE  Heap!Next
<1>1. pc[t] = "idle" /\ tmp[t] = Null /\ UNCHANGED <<heap, field, var, tmp>>
  BY DEF Reset, Idle, IInv, Phases
<1>2. /\ pc'[t] = "store" /\ dst'[t] = v
      /\ \A u \in Threads \ {t} : pc'[u] = pc[u] /\ dst'[u] = dst[u]
  BY DEF Reset, IInv, TypeOK
<1>3. Held' = [Held EXCEPT ![t][v] = Null]
  <2>1. /\ Held'[t][v] = Null
        /\ \A w \in Vars \ {v} : Held'[t][w] = Held[t][w]
    BY <1>1, <1>2, HeldCasesNow, HeldCasesNext
  <2>2. \A u \in Threads \ {t}, w \in Vars : Held'[u][w] = Held[u][w]
    BY <1>1, <1>2, HeldOther
  <2> QED
    BY <1>1, <2>1, <2>2, HeldSet DEF IInv
<1>4. Heap!Assign(t, v, Null)
  BY <1>1, <1>3, ObjectsKept DEF Heap!Assign
<1> QED
  BY <1>4 DEF Heap!Next, Heap!Pointers

LEMMA MoveAssignRefines ==
  ASSUME IInv, IInv', NEW t \in Threads, NEW v \in Vars, NEW w \in Vars,
         MoveAssign(t, v, w)
  PROVE  Heap!Next
<1>1. pc[t] = "idle" /\ v # w /\ UNCHANGED <<heap, field, pc, tmp, dst>>
  BY DEF MoveAssign, Idle
<1>2. /\ \A u \in Threads \ {t} : var'[u] = var[u]
      /\ var'[t] = [var[t] EXCEPT ![v] = var[t][w], ![w] = var[t][v]]
  BY DEF MoveAssign, IInv, TypeOK
<1>3. \A x \in Vars : Held[t][x] = var[t][x] /\ Held'[t][x] = var'[t][x]
  BY <1>1, HeldPlain
<1>4. Held[t] = var[t] /\ Held'[t] = var'[t]
  BY <1>3, HeldType DEF IInv, TypeOK
<1>5. \A u \in Threads \ {t} : Held'[u] = Held[u]
  BY <1>1, <1>2, HeldOther, HeldType DEF IInv
<1>6. Held' = [Held EXCEPT ![t] = [Held[t] EXCEPT ![v] = Held[t][w], ![w] = Held[t][v]]]
  BY <1>2, <1>4, <1>5, HeldType DEF IInv
<1>7. Held' = [Held EXCEPT ![t][v] = Held[t][w], ![t][w] = Held[t][v]]
  BY <1>6, HeldType DEF IInv
<1>8. Heap!Swap(t, v, w)
  BY <1>1, <1>7, ObjectsKept DEF Heap!Swap
<1> QED
  BY <1>8 DEF Heap!Next

LEMMA HandOverRefines ==
  ASSUME IInv, IInv', NEW t \in Threads, NEW v \in Vars, NEW u \in Threads,
         NEW w \in Vars, HandOver(t, v, u, w)
  PROVE  Heap!Next
<1>1. /\ pc[t] = "idle" /\ pc[u] = "idle" /\ t # u /\ var[u][w] = Null
      /\ UNCHANGED <<heap, field, pc, tmp, dst>>
  BY DEF HandOver, Idle
<1>2. /\ \A x \in Threads \ {t, u} : var'[x] = var[x]
      /\ var'[u] = [var[u] EXCEPT ![w] = var[t][v]]
      /\ var'[t] = [var[t] EXCEPT ![v] = Null]
  BY <1>1 DEF HandOver, IInv, TypeOK
<1>3. /\ \A x \in Vars : Held[t][x] = var[t][x] /\ Held'[t][x] = var'[t][x]
      /\ \A x \in Vars : Held[u][x] = var[u][x] /\ Held'[u][x] = var'[u][x]
  BY <1>1, HeldPlain
<1>4. /\ Held[t] = var[t] /\ Held'[t] = var'[t]
      /\ Held[u] = var[u] /\ Held'[u] = var'[u]
  BY <1>3, HeldType DEF IInv, TypeOK
<1>5. \A x \in Threads \ {t, u} : Held'[x] = Held[x]
  BY <1>1, <1>2, HeldOther, HeldType DEF IInv
<1>6. Held' = [Held EXCEPT ![u] = [Held[u] EXCEPT ![w] = Held[t][v]],
                           ![t] = [Held[t] EXCEPT ![v] = Null]]
  BY <1>1, <1>2, <1>4, <1>5, HeldType DEF IInv
<1>7. Held' = [Held EXCEPT ![u][w] = Held[t][v], ![t][v] = Null]
  BY <1>1, <1>6, HeldType DEF IInv
<1>8. Heap!Give(t, v, u, w)
  BY <1>1, <1>4, <1>7, ObjectsKept DEF Heap!Give
<1> QED
  BY <1>1, <1>8 DEF Heap!Next

(* An object is collected when its destructor begins: by then nothing      *)
(* refers to it.                                                           *)
LEMMA BeginDeleteRefines ==
  ASSUME IInv, IInv', NEW t \in Threads, BeginDelete(t)
  PROVE  Heap!Next
<1> DEFINE o == Head(dying[t])
<1>1. heap[o] = "live" /\ dying[t] # <<>> /\ UNCHANGED <<field, var, pc, tmp, dst>>
  BY DEF BeginDelete
<1>2. o \in Objs /\ o \in Deleting(t)
  <2>1. dying[t] \in Seq(Objs) /\ IsInjective(dying[t])
    BY DEF IInv, TypeOK, Safety, DestroyedOnce
  <2> QED
    BY <1>1, <2>1, PopProperties DEF Deleting
<1>3. Refs(o) = {}
  BY <1>1, <1>2 DEF IInv, Safety, DestroyedOnce
<1>4. \A p \in Objs : heap'[p] = IF p = o THEN "dying" ELSE heap[p]
  BY <1>2 DEF BeginDelete, IInv, TypeOK
<1>5. Alive' = Alive \ {o} /\ o \in Alive
  BY <1>1, <1>2, <1>4 DEF Alive
<1>6. Args' = [Args EXCEPT ![o] = Heap!NoArgs]
  BY <1>1, <1>2, <1>4 DEF Args, Heap!NoArgs, Fields, Heap!Fields
<1>7. UNCHANGED Held
  BY <1>1 DEF Held, Stale
<1>8. Heap!Unreferenced(o)
  BY <1>2, <1>3, NoRefsUnreferenced DEF IInv
<1>9. Heap!Collect(o)
  BY <1>5, <1>6, <1>7, <1>8 DEF Heap!Collect
<1> QED
  BY <1>2, <1>9 DEF Heap!Next

-----------------------------------------------------------------------------
(* The theorem.                                                            *)

LEMMA InitRefines == Init => Heap!Init
  BY DEF Init, Heap!Init, Held, Args, Alive, Stale, Heap!NoArgs, Heap!Fields, Fields

LEMMA StepRefines ==
  ASSUME IInv, IInv', [Next]_vars
  PROVE  [Heap!Next]_(Heap!vars)
<1>1. CASE UNCHANGED vars
  BY <1>1 DEF vars, Heap!vars, Held, Args, Alive, Stale
<1>2. CASE Next
  BY <1>2, NewRefines, CopyConstructRefines, CopyAssignRefines, ResetRefines,
     MoveAssignRefines, HandOverRefines, BuildFieldRefines, PublishRefines,
     CountCopyRefines, CountAssignRefines, DropOldRefines, BeginDeleteRefines, DestroyFieldRefines, FreeRefines,
     StoreRefines DEF Next, Start, Continue
<1> QED
  BY <1>1, <1>2

(* Every execution of the counted heap, looked at through what variables   *)
(* hold, arguments and live objects, is one of the shared heap: an object  *)
(* that is held exists, its arguments never change while it does, and it   *)
(* goes only when nothing holds it, although the code reads the members of *)
(* shared objects and drops its references without a lock.                 *)
THEOREM RefinesSharedHeap == Spec => Heap!Steps
<1>1. Init => IInv /\ Heap!Init
  BY InitIInv, InitRefines
<1>2. IInv /\ [Next]_vars => IInv'
  BY StepIInv
<1>3. IInv /\ IInv' /\ [Next]_vars => [Heap!Next]_(Heap!vars)
  BY StepRefines
<1> QED
  BY <1>1, <1>2, <1>3, PTL DEF Spec, Heap!Steps

=============================================================================
