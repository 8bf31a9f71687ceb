------------------------- MODULE LambdaDoubleProofs -------------------------
(***************************************************************************)
(* Proofs about LambdaDouble: for every set of visitors and of requests    *)
(* the pointers of a visitor's functions go into its own vector, it knows  *)
(* all symbols of what it accepted, and call returns the values of the     *)
(* expressions.  The invariant says whose memory each address is, and what *)
(* init made of the request that a visitor holds.                          *)
(***************************************************************************)
EXTENDS LambdaDouble, SequenceLemmas, FiniteSetTheorems

-----------------------------------------------------------------------------
(* What cse gets and gives.                                                *)

Fresh == ToSet(FreshNames)

(* A request as RequestsFit and NamesKnown have it.                        *)
Fit(r) ==
  /\ r.inputs \in Seq(STRING) /\ r.outputs \in Seq(Seq(Seq(STRING)))
  /\ \A p \in ToSet(AllParts(r.outputs)) : Len(p) \in {1, 2}
  /\ Len(Repeated(r.outputs)) <= Len(Unused(r.outputs))
  /\ ToSet(r.inputs) \cap Fresh = SymbolsOf(r.outputs) \cap Fresh

(* p is a part of one of the expressions.                                  *)
PartOf(outputs, p) == \E k \in 1..Len(outputs) : \E j \in 1..Len(outputs[k]) : p = outputs[k][j]

(* The parts are those of the expressions, and only those.                 *)
LEMMA PartsType ==
  ASSUME NEW T, NEW outputs \in Seq(Seq(T))
  PROVE  AllParts(outputs) \in Seq(T) /\ \A p : p \in ToSet(AllParts(outputs)) <=> PartOf(outputs, p)
<1> DEFINE n == Len(outputs)
<1>1. n \in Nat /\ outputs \in [1..n -> Seq(T)] BY SeqFunction
<1>2. /\ FlattenSeq(outputs) \in Seq(T)
      /\ ToSet(FlattenSeq(outputs)) = UNION {ToSet(outputs[k]) : k \in 1..n}
  BY <1>1, FlattenElements
<1>3. ASSUME NEW k \in 1..n PROVE ToSet(outputs[k]) = {outputs[k][j] : j \in 1..Len(outputs[k])}
  <2>1. outputs[k] \in Seq(T) BY <1>1
  <2>2. DOMAIN outputs[k] = 1..Len(outputs[k]) BY <2>1, SeqFunction
  <2> QED BY <2>2 DEF ToSet
<1>4. ASSUME NEW p
      PROVE  p \in UNION {ToSet(outputs[k]) : k \in 1..n} <=> PartOf(outputs, p)
  BY <1>3 DEF PartOf
<1> QED BY <1>2, <1>4 DEF AllParts

(* The expressions are made of their parts.                                *)
LEMMA OutputsAre ==
  ASSUME NEW r, Fit(r)
  PROVE  /\ DOMAIN r.outputs = 1..Len(r.outputs)
         /\ \A k \in DOMAIN r.outputs :
              /\ DOMAIN r.outputs[k] = 1..Len(r.outputs[k])
              /\ \A j \in DOMAIN r.outputs[k] : r.outputs[k][j] \in ToSet(AllParts(r.outputs))
<1>1. r.outputs \in Seq(Seq(Seq(STRING))) BY DEF Fit
<1> DEFINE V == Seq(STRING)
<1>2. r.outputs \in Seq(Seq(V)) BY <1>1
<1> HIDE DEF V
<1>3. DOMAIN r.outputs = 1..Len(r.outputs) /\ r.outputs \in [1..Len(r.outputs) -> Seq(V)]
  BY <1>2, SeqFunction
<1>4. \A k \in DOMAIN r.outputs : DOMAIN r.outputs[k] = 1..Len(r.outputs[k])
  BY <1>3, SeqFunction
<1>5. \A p : p \in ToSet(AllParts(r.outputs)) <=> PartOf(r.outputs, p)
  BY <1>2, PartsType
<1>6. ASSUME NEW k \in DOMAIN r.outputs, NEW j \in DOMAIN r.outputs[k]
      PROVE  r.outputs[k][j] \in ToSet(AllParts(r.outputs))
  <2>1. PartOf(r.outputs, r.outputs[k][j]) BY <1>3, <1>4 DEF PartOf
  <2> QED BY <1>5, <2>1
<1> QED BY <1>3, <1>4, <1>6

(* The parts that occur twice are parts of the expressions.                *)
LEMMA RepeatedType ==
  ASSUME NEW r, Fit(r)
  PROVE  /\ Repeated(r.outputs) \in Seq(Seq(STRING))
         /\ \A k \in 1..Len(Repeated(r.outputs)) :
              Repeated(r.outputs)[k] \in ToSet(AllParts(r.outputs))
<1> DEFINE all == AllParts(r.outputs)
           S == {k \in DOMAIN all : /\ Len(all[k]) = 2
                                    /\ \E j \in DOMAIN all : j > k /\ all[j] = all[k]
                                    /\ \A j \in DOMAIN all : j < k => all[j] # all[k]}
<1>1. all \in Seq(Seq(STRING)) BY PartsType DEF Fit
<1>2. Repeated(r.outputs) = Selected(all, S) BY DEF Repeated
<1> HIDE DEF S, all
<1>3. /\ Selected(all, S) \in Seq(Seq(STRING))
      /\ \A k \in 1..Len(Selected(all, S)) : \E j \in S \cap 1..Len(all) : Selected(all, S)[k] = all[j]
  <2> DEFINE V == Seq(STRING)
  <2>1. all \in Seq(V) BY <1>1
  <2> HIDE DEF V
  <2>2. /\ Selected(all, S) \in Seq(V)
        /\ \A k \in 1..Len(Selected(all, S)) : \E j \in S \cap 1..Len(all) : Selected(all, S)[k] = all[j]
    BY <2>1, SelectedElements
  <2> QED BY <2>2 DEF V
<1>4. DOMAIN all = 1..Len(all) BY <1>1, SeqFunction
<1>5. \A j \in 1..Len(all) : all[j] \in ToSet(all) BY <1>4 DEF ToSet
<1>6. ASSUME NEW k \in 1..Len(Selected(all, S)) PROVE Selected(all, S)[k] \in ToSet(all)
  BY <1>3, <1>5
<1> QED BY <1>2, <1>3, <1>6 DEF all

(* The names for them are different, and no symbols of the expressions.    *)
LEMMA NamesType ==
  ASSUME NEW outputs
  PROVE  /\ Unused(outputs) \in Seq({"x0", "x1", "x2"})
         /\ \A k \in 1..Len(Unused(outputs)) :
              Unused(outputs)[k] \in Fresh /\ Unused(outputs)[k] \notin SymbolsOf(outputs)
         /\ \A k, h \in 1..Len(Unused(outputs)) : k # h => Unused(outputs)[k] # Unused(outputs)[h]
<1> DEFINE S == {k \in DOMAIN FreshNames : FreshNames[k] \notin SymbolsOf(outputs)}
           n == Len(FreshNames)
           u == Selected(FreshNames, S)
<1>1. /\ FreshNames \in Seq({"x0", "x1", "x2"}) /\ n = 3 /\ DOMAIN FreshNames = 1..3
      /\ \A i, j \in 1..3 : i < j => FreshNames[i] # FreshNames[j]
  <2>1. FreshNames \in Seq({"x0", "x1", "x2"}) /\ Len(FreshNames) = 3
    <3> DEFINE V == {"x0", "x1", "x2"}
    <3>1. "x0" \in V /\ "x1" \in V /\ "x2" \in V OBVIOUS
    <3> HIDE DEF V
    <3>2. <<"x0", "x1", "x2">> \in Seq(V) BY <3>1
    <3>3. FreshNames \in Seq(V) BY <3>2 DEF FreshNames
    <3>4. Len(FreshNames) = 3 BY DEF FreshNames
    <3> QED BY <3>3, <3>4 DEF V
  <2>2. FreshNames[1] = "x0" /\ FreshNames[2] = "x1" /\ FreshNames[3] = "x2" BY DEF FreshNames
  <2>3. DOMAIN FreshNames = 1..3 BY <2>1, SeqFunction
  <2>4. ASSUME NEW i \in 1..3, NEW j \in 1..3, i < j PROVE FreshNames[i] # FreshNames[j]
    <3>1. (i = 1 /\ j = 2) \/ (i = 1 /\ j = 3) \/ (i = 2 /\ j = 3) BY <2>4
    <3> QED BY <2>2, <3>1
  <2> QED BY <2>1, <2>3, <2>4
<1>2. Unused(outputs) = u BY DEF Unused
<1>3. \A j \in S : j \in 1..3 /\ FreshNames[j] \in Fresh /\ FreshNames[j] \notin SymbolsOf(outputs)
  BY <1>1 DEF Fresh, ToSet
<1> HIDE DEF S, n
<1>4. /\ u \in Seq({"x0", "x1", "x2"})
      /\ \A k \in 1..Len(u) : \E j \in S \cap 1..n : u[k] = FreshNames[j]
      /\ \A k, h \in 1..Len(u) :
           k < h => \E i, j \in S \cap 1..n : i < j /\ u[k] = FreshNames[i] /\ u[h] = FreshNames[j]
  <2> DEFINE V == {"x0", "x1", "x2"}
  <2>1. FreshNames \in Seq(V) BY <1>1
  <2> HIDE DEF V
  <2>2. u \in Seq(V) BY <2>1, SelectedElements
  <2>3. \A k \in 1..Len(u) : \E j \in S \cap 1..Len(FreshNames) : u[k] = FreshNames[j]
    BY <2>1, SelectedElements
  <2>4. InOrder(FreshNames, S, u) BY <2>1, SelectedElements
  <2> HIDE DEF u
  <2> QED BY <2>2, <2>3, <2>4 DEF V, n, InOrder
<1> HIDE DEF u
<1>5. ASSUME NEW k \in 1..Len(u) PROVE u[k] \in Fresh /\ u[k] \notin SymbolsOf(outputs)
  BY <1>3, <1>4
<1>6. ASSUME NEW k \in 1..Len(u), NEW h \in 1..Len(u), k < h PROVE u[k] # u[h]
  <2>1. PICK i, j \in S \cap 1..n : i < j /\ u[k] = FreshNames[i] /\ u[h] = FreshNames[j]
    BY <1>4, <1>6
  <2> QED BY <2>1, <1>1
<1>7. ASSUME NEW k \in 1..Len(u), NEW h \in 1..Len(u), k # h PROVE u[k] # u[h]
  <2>1. k \in Int /\ h \in Int OBVIOUS
  <2>2. k < h \/ h < k BY <2>1, <1>7
  <2> QED BY <2>2, <1>6
<1> QED BY <1>2, <1>4, <1>5, <1>7

-----------------------------------------------------------------------------
(* What a name is looked up as.                                            *)

(* The function of a part all of whose symbols are inputs.                 *)
Plain(r, p) == [k \in DOMAIN p |-> Input(Place(r.inputs, p[k]))]

(* The symbols of a part of the expressions are sought in the inputs only: *)
(* what is called like a replacement is there.                             *)
LEMMA PartLookup ==
  ASSUME NEW r, Fit(r), NEW p \in ToSet(AllParts(r.outputs)), NEW k \in DOMAIN p,
         NEW now, now.symbols = r.inputs, DOMAIN now.cse_map \subseteq Fresh
  PROVE  Lookup(now, p[k]) =
           IF p[k] \in ToSet(r.inputs) THEN Input(Place(r.inputs, p[k])) ELSE Throw
<1>1. p[k] \in SymbolsOf(r.outputs) BY DEF SymbolsOf, ToSet
<1>2. p[k] \in DOMAIN now.cse_map => p[k] \in ToSet(r.inputs) BY <1>1 DEF Fit
<1> QED BY <1>2 DEF Lookup

(* So a function that could be made is the plain one, and made only if all *)
(* symbols are known.                                                      *)
LEMMA PartFunction ==
  ASSUME NEW r, Fit(r), NEW p \in ToSet(AllParts(r.outputs)),
         NEW now, now.symbols = r.inputs, DOMAIN now.cse_map \subseteq Fresh
  PROVE  /\ DOMAIN Function(now, p) = DOMAIN p
         /\ \A k \in DOMAIN p : Function(now, p)[k].from # "memory"
         /\ ~ Throws(Function(now, p)) =>
              Function(now, p) = Plain(r, p) /\ ToSet(p) \subseteq ToSet(r.inputs)
<1> DEFINE f == Function(now, p)
<1>1. DOMAIN f = DOMAIN p BY DEF Function
<1>2. ASSUME NEW k \in DOMAIN p
      PROVE  f[k] = IF p[k] \in ToSet(r.inputs) THEN Input(Place(r.inputs, p[k])) ELSE Throw
  BY PartLookup DEF Function
<1> HIDE DEF f
<1>3. ASSUME NEW k \in DOMAIN p PROVE f[k].from # "memory"
  <2>1. f[k] = Input(Place(r.inputs, p[k])) \/ f[k] = Throw BY <1>2
  <2>2. Throw.from = "nowhere" BY DEF Throw
  <2>3. Input(Place(r.inputs, p[k])).from = "input" BY DEF Input
  <2> QED BY <2>1, <2>2, <2>3
<1>4. ASSUME ~ Throws(f) PROVE f = Plain(r, p) /\ ToSet(p) \subseteq ToSet(r.inputs)
  <2>1. ASSUME NEW k \in DOMAIN p PROVE p[k] \in ToSet(r.inputs)
    <3>1. f[k] # Throw BY <1>1, <1>4 DEF Throws
    <3> QED BY <1>2, <3>1
  <2>2. \A k \in DOMAIN p : f[k] = Input(Place(r.inputs, p[k])) BY <1>2, <2>1
  <2>3. f = [k \in DOMAIN p |-> f[k]] BY DEF Function, f
  <2>4. f = Plain(r, p) BY <2>2, <2>3 DEF Plain
  <2>5. ToSet(p) \subseteq ToSet(r.inputs) BY <2>1 DEF ToSet
  <2> QED BY <2>4, <2>5
<1> QED BY <1>1, <1>3, <1>4 DEF f

(* The names of the first n replacements, and what was there before.       *)
LEMMA NamedAre ==
  ASSUME NEW map, NEW outputs, NEW n \in 0..Len(Unused(outputs))
  PROVE  /\ DOMAIN map \subseteq Fresh => DOMAIN Named(map, Unused(outputs), n) \subseteq Fresh
         /\ \A k \in 1..n : /\ Unused(outputs)[k] \in DOMAIN Named(map, Unused(outputs), n)
                            /\ Named(map, Unused(outputs), n)[Unused(outputs)[k]] = k
<1> DEFINE u == Unused(outputs)
<1>1. /\ \A k \in 1..Len(u) : u[k] \in Fresh
      /\ \A k, h \in 1..Len(u) : k # h => u[k] # u[h]
      /\ Len(u) \in Nat
  BY NamesType, LenProperties
<1> HIDE DEF u
<1>2. \A k \in 1..n : k \in 1..Len(u) BY <1>1 DEF u
<1>3. DOMAIN Named(map, u, n) = DOMAIN map \cup {u[k] : k \in 1..n} BY DEF Named
<1>4. ASSUME NEW k \in 1..n PROVE u[k] \in DOMAIN Named(map, u, n) /\ Named(map, u, n)[u[k]] = k
  <2>1. u[k] \in DOMAIN map \cup {u[h] : h \in 1..n} OBVIOUS
  <2>2. \E h \in 1..n : u[h] = u[k] OBVIOUS
  <2>3. Named(map, u, n)[u[k]] = CHOOSE h \in 1..n : u[h] = u[k] BY <2>1, <2>2 DEF Named
  <2>4. \A h \in 1..n : u[h] = u[k] => h = k BY <1>1, <1>2
  <2>5. (CHOOSE h \in 1..n : u[h] = u[k]) = k BY <2>4
  <2> QED BY <1>3, <2>1, <2>3, <2>5
<1>5. \A k \in 1..n : u[k] \in Fresh BY <1>1, <1>2
<1> QED BY <1>3, <1>4, <1>5 DEF u

(* A replacement's name, while the first n have one, is its place in the   *)
(* vector: no input is called like it.                                     *)
LEMMA NameLookup ==
  ASSUME NEW r, Fit(r), NEW map, NEW n \in 0..Len(Unused(r.outputs)), NEW h \in 1..n,
         NEW now, now.symbols = r.inputs, now.cse_map = Named(map, Unused(r.outputs), n)
  PROVE  Lookup(now, Unused(r.outputs)[h]) = Slot(now.data, h)
<1> DEFINE x == Unused(r.outputs)[h]
<1>1. Len(Unused(r.outputs)) \in Nat BY NamesType, LenProperties
<1>2. x \in Fresh /\ x \notin SymbolsOf(r.outputs)
  <2>1. h \in 1..Len(Unused(r.outputs)) BY <1>1
  <2> QED BY <2>1, NamesType
<1>3. x \notin ToSet(r.inputs) BY <1>2 DEF Fit
<1>4. x \in DOMAIN now.cse_map /\ now.cse_map[x] = h BY NamedAre
<1> HIDE DEF x
<1>5. Lookup(now, x) = Slot(now.data, h) BY <1>3, <1>4 DEF Lookup
<1> QED BY <1>5 DEF x

(* Of what is done in order, all is done if nothing throws, and only then. *)
LEMMA UpToThrowIs ==
  ASSUME NEW s, NEW T \in SUBSET DOMAIN s
  PROVE  /\ DOMAIN UpToThrow(s, T) \subseteq DOMAIN s
         /\ \A k \in DOMAIN UpToThrow(s, T) : UpToThrow(s, T)[k] = s[k]
         /\ UpToThrow(s, T) = [k \in DOMAIN UpToThrow(s, T) |-> s[k]]
         /\ (\A k \in DOMAIN s : k \in Int) /\ DOMAIN UpToThrow(s, T) = DOMAIN s => T = {}
<1>1. DOMAIN UpToThrow(s, T) = {h \in DOMAIN s : \A j \in T : h < j} BY DEF UpToThrow
<1>2. /\ \A k \in DOMAIN UpToThrow(s, T) : UpToThrow(s, T)[k] = s[k]
      /\ UpToThrow(s, T) = [k \in DOMAIN UpToThrow(s, T) |-> s[k]]
  BY DEF UpToThrow
<1>3. ASSUME \A k \in DOMAIN s : k \in Int, DOMAIN UpToThrow(s, T) = DOMAIN s PROVE T = {}
  <2>1. SUFFICES ASSUME NEW k \in T PROVE FALSE
    OBVIOUS
  <2>2. k \in DOMAIN s /\ k \in Int BY <1>3
  <2>3. k < k BY <1>1, <1>3, <2>2
  <2> QED BY <2>2, <2>3
<1> QED BY <1>1, <1>2, <1>3

-----------------------------------------------------------------------------
(* What init makes.                                                        *)

(* f computes the part p: from the inputs, or it reads what the function   *)
(* for it in cse_fns has written into the vector.                          *)
Serves(r, parts, data, f, p) ==
  \/ f = Plain(r, p)
  \/ \E h \in 1..Len(parts) : parts[h] = p /\ f = [k \in 1..1 |-> Slot(data, h)]

(* A visitor whose functions compute these parts and then the expressions. *)
Serving(l, r, parts) ==
  /\ Len(parts) <= l.size
  /\ l.cse_fns = [k \in 1..Len(parts) |-> Plain(r, parts[k])]
  /\ DOMAIN l.results = DOMAIN r.outputs
  /\ \A k \in DOMAIN r.outputs :
       /\ DOMAIN l.results[k] = DOMAIN r.outputs[k]
       /\ \A j \in DOMAIN r.outputs[k] :
            Serves(r, parts, l.data, l.results[k][j], r.outputs[k][j])

Ready(l) ==
  \/ l.ready = NoRequest
  \/ /\ l.ready \in Requests
     /\ SymbolsOf(l.ready.outputs) \subseteq ToSet(l.ready.inputs)
     /\ \E parts \in {<<>>, Repeated(l.ready.outputs)} : Serving(l, l.ready, parts)

(* A pointer into the visitor's vector, within its size.                   *)
Good(f, l) == f.from = "memory" => f.address = l.data /\ f.index \in 1..l.size

Pointed(l) == \A f \in Reads(l) : Good(f, l)

Made(l) == DOMAIN l.cse_map \subseteq Fresh /\ Pointed(l) /\ Ready(l)

(* What Reads collects, place by place.                                    *)
LEMMA ReadsAre ==
  ASSUME NEW l,
         \A k \in DOMAIN l.cse_fns : \A i \in DOMAIN l.cse_fns[k] : Good(l.cse_fns[k][i], l),
         \A k \in DOMAIN l.results : \A j \in DOMAIN l.results[k] :
           \A i \in DOMAIN l.results[k][j] : Good(l.results[k][j][i], l)
  PROVE  Pointed(l)
<1> SUFFICES ASSUME NEW f \in Reads(l) PROVE Good(f, l)
  BY DEF Pointed
<1>1. PICK g \in ToSet(l.cse_fns) \cup UNION {ToSet(fs) : fs \in ToSet(l.results)} : f \in ToSet(g)
  BY DEF Reads
<1>2. PICK i \in DOMAIN g : f = g[i] BY <1>1 DEF ToSet
<1>3. CASE g \in ToSet(l.cse_fns)
  <2>1. PICK k \in DOMAIN l.cse_fns : g = l.cse_fns[k] BY <1>3 DEF ToSet
  <2> QED BY <1>2, <2>1
<1>4. CASE g \in UNION {ToSet(fs) : fs \in ToSet(l.results)}
  <2>1. PICK fs \in ToSet(l.results) : g \in ToSet(fs) BY <1>4
  <2>2. PICK k \in DOMAIN l.results : fs = l.results[k] BY <2>1 DEF ToSet
  <2>3. PICK j \in DOMAIN fs : g = fs[j] BY <2>1 DEF ToSet
  <2> QED BY <1>2, <2>2, <2>3
<1> QED BY <1>1, <1>3, <1>4

(* A reduced expression has the name of a part that was taken out for it,  *)
(* and all other parts as they are.                                        *)
LEMMA ReducedIs ==
  ASSUME NEW outputs, DOMAIN Repeated(outputs) = 1..Len(Repeated(outputs))
  PROVE  /\ DOMAIN Reduced(outputs) = DOMAIN outputs
         /\ \A k \in DOMAIN outputs :
              /\ DOMAIN Reduced(outputs)[k] = DOMAIN outputs[k]
              /\ \A j \in DOMAIN outputs[k] :
                   \/ Reduced(outputs)[k][j] = outputs[k][j]
                   \/ \E h \in 1..Len(Repeated(outputs)) :
                        /\ Repeated(outputs)[h] = outputs[k][j]
                        /\ Reduced(outputs)[k][j] = <<Unused(outputs)[h]>>
<1> DEFINE parts == Repeated(outputs)
           reduced(p) == IF Contains(parts, p) THEN <<Unused(outputs)[Place(parts, p)]>> ELSE p
<1>1. Reduced(outputs) = [k \in DOMAIN outputs |->
                            [j \in DOMAIN outputs[k] |-> reduced(outputs[k][j])]]
  BY DEF Reduced
<1>2. ASSUME NEW p
      PROVE  \/ reduced(p) = p
             \/ \E h \in 1..Len(parts) : parts[h] = p /\ reduced(p) = <<Unused(outputs)[h]>>
  <2>1. CASE Contains(parts, p)
    <3>2. DOMAIN parts = 1..Len(parts) OBVIOUS
    <3>3. \E h \in DOMAIN parts : parts[h] = p BY <2>1, <3>2 DEF Contains
    <3>4. Place(parts, p) \in DOMAIN parts /\ parts[Place(parts, p)] = p BY <3>3 DEF Place
    <3> QED BY <2>1, <3>2, <3>4
  <2>2. CASE ~ Contains(parts, p) BY <2>2
  <2> QED BY <2>1, <2>2
<1> HIDE DEF reduced, parts
<1> QED BY <1>1, <1>2 DEF parts

(* The functions that init makes are such, whether it returns or throws.   *)
LEMMA CompiledMade ==
  ASSUME NEW r \in Requests, Fit(r), NEW map, DOMAIN map \subseteq Fresh, NEW cse \in BOOLEAN,
         NEW room, room.size \in Nat, cse => room.size = Len(Repeated(r.outputs))
  PROVE  /\ Made(Compiled(map, room, r, cse))
         /\ Compiled(map, room, r, cse).data = room.data
         /\ Compiled(map, room, r, cse).size = room.size
         /\ Compiled(map, room, r, cse).capacity = room.capacity
<1> DEFINE parts == IF cse THEN Repeated(r.outputs) ELSE <<>>
           exprs == IF cse THEN Reduced(r.outputs) ELSE r.outputs
           names == Unused(r.outputs)
           n == Len(parts)
           after(k) == [symbols |-> r.inputs, data |-> room.data, cse_map |-> Named(map, names, k)]
           fns == [k \in DOMAIN parts |-> Function(after(k - 1), parts[k])]
           T == {k \in DOMAIN fns : Throws(fns[k])}
           cse_fns == UpToThrow(fns, T)
           m == Cardinality(DOMAIN cse_fns)
           now == after(m)
           all == [k \in DOMAIN exprs |-> Functions(now, exprs[k])]
           U == {k \in DOMAIN all : AnyThrows(all[k])}
           results == IF DOMAIN cse_fns # DOMAIN fns THEN <<>> ELSE UpToThrow(all, U)
           returned == DOMAIN cse_fns = DOMAIN fns /\ DOMAIN results = DOMAIN all
           cleared == cse /\ returned
           l == [results |-> results, cse_fns |-> cse_fns,
                 cse_map |-> IF cleared THEN <<>> ELSE now.cse_map,
                 symbols |-> IF cleared THEN <<>> ELSE r.inputs,
                 data |-> room.data, size |-> room.size, capacity |-> room.capacity,
                 ready |-> IF returned THEN r ELSE NoRequest]
<1>1. Compiled(map, room, r, cse) = l BY DEF Compiled
<1>2. /\ n \in Nat /\ DOMAIN parts = 1..n /\ n <= room.size /\ n <= Len(names)
      /\ \A k \in 1..n : parts[k] \in ToSet(AllParts(r.outputs))
  <2>1. Len(names) \in Nat BY NamesType, LenProperties
  <2>2. CASE cse
    <3>1. parts = Repeated(r.outputs) BY <2>2
    <3>2. /\ Repeated(r.outputs) \in Seq(Seq(STRING))
          /\ \A k \in 1..Len(Repeated(r.outputs)) : Repeated(r.outputs)[k] \in ToSet(AllParts(r.outputs))
      BY RepeatedType
    <3>3. n = Len(Repeated(r.outputs)) /\ n \in Nat /\ DOMAIN parts = 1..n BY <3>1, <3>2, SeqFunction
    <3> HIDE DEF parts, n, names
    <3> QED BY <2>2, <3>1, <3>2, <3>3 DEF Fit, names
  <2>3. CASE ~ cse
    <3>1. parts = <<>> BY <2>3
    <3> HIDE DEF parts, names
    <3>2. n = 0 BY <3>1
    <3>3. DOMAIN parts = 1..0 BY <3>1
    <3> QED BY <2>1, <3>2, <3>3
  <2> QED BY <2>2, <2>3
<1>3. ASSUME NEW k \in 0..n
      PROVE  /\ after(k).symbols = r.inputs /\ after(k).data = room.data
             /\ after(k).cse_map = Named(map, names, k)
             /\ DOMAIN after(k).cse_map \subseteq Fresh
  <2>1. k \in 0..Len(names)
    <3>1. Len(names) \in Nat BY NamesType, LenProperties
    <3> HIDE DEF names, n
    <3> QED BY <1>2, <3>1
  <2>2. DOMAIN Named(map, names, k) \subseteq Fresh
    <3> HIDE DEF n
    <3> QED BY <2>1, NamedAre
  <2> HIDE DEF names, n
  <2> QED BY <2>2
<1>4. ASSUME NEW k \in 1..n
      PROVE  /\ \A i \in DOMAIN fns[k] : fns[k][i].from # "memory"
             /\ ~ Throws(fns[k]) => fns[k] = Plain(r, parts[k]) /\ ToSet(parts[k]) \subseteq ToSet(r.inputs)
  <2> DEFINE w == after(k - 1)
  <2>1. k - 1 \in 0..n
    <3> HIDE DEF n
    <3> QED BY <1>2
  <2>2. w.symbols = r.inputs /\ DOMAIN w.cse_map \subseteq Fresh
    <3> HIDE DEF after, n
    <3> QED BY <2>1, <1>3
  <2>3. parts[k] \in ToSet(AllParts(r.outputs)) BY <1>2
  <2>4. fns[k] = Function(w, parts[k])
    <3> HIDE DEF parts, n, after
    <3> QED BY <1>2
  <2> HIDE DEF w, fns, parts
  <2>5. /\ DOMAIN Function(w, parts[k]) = DOMAIN parts[k]
        /\ \A i \in DOMAIN parts[k] : Function(w, parts[k])[i].from # "memory"
        /\ ~ Throws(Function(w, parts[k])) =>
             Function(w, parts[k]) = Plain(r, parts[k]) /\ ToSet(parts[k]) \subseteq ToSet(r.inputs)
    BY <2>2, <2>3, PartFunction, Zenon
  <2> QED BY <2>4, <2>5, Zenon
<1>5. DOMAIN fns = 1..n
  <2> HIDE DEF parts, n, after
  <2> QED BY <1>2
<1>6. /\ DOMAIN cse_fns \subseteq 1..n
      /\ \A k \in DOMAIN cse_fns : cse_fns[k] = fns[k]
      /\ cse_fns = [k \in DOMAIN cse_fns |-> fns[k]]
      /\ DOMAIN cse_fns = DOMAIN fns => \A k \in 1..n : ~ Throws(fns[k])
  <2>1. T \in SUBSET DOMAIN fns
    <3> HIDE DEF fns
    <3> QED OBVIOUS
  <2>2. \A k \in DOMAIN fns : k \in Int
    <3> HIDE DEF fns, n
    <3> QED BY <1>5
  <2>3. T = {} => \A k \in 1..n : ~ Throws(fns[k])
    <3> HIDE DEF fns, n
    <3> QED BY <1>5
  <2> HIDE DEF fns, T, n
  <2> QED BY <1>5, <2>1, <2>2, <2>3, UpToThrowIs
<1>7. m \in 0..n /\ (DOMAIN cse_fns = DOMAIN fns => m = n)
  <2> HIDE DEF cse_fns, fns, n
  <2>1. IsFiniteSet(1..n) /\ Cardinality(1..n) = n BY <1>2, FS_Interval
  <2>0. PICK whole : whole = 1..n OBVIOUS
  <2>01. DOMAIN cse_fns \subseteq whole /\ IsFiniteSet(whole) /\ Cardinality(whole) = n BY <1>6, <2>0, <2>1
  <2>2. IsFiniteSet(DOMAIN cse_fns) /\ m <= n
    <3>1. IsFiniteSet(DOMAIN cse_fns) /\ Cardinality(DOMAIN cse_fns) <= Cardinality(whole)
      BY <2>01, FS_Subset
    <3> QED BY <2>01, <3>1
  <2>3. m \in Nat BY <2>2, FS_CardinalityType
  <2> HIDE DEF m
  <2>4. m \in 0..n BY <1>2, <2>2, <2>3
  <2> QED BY <2>1, <2>4, <1>5 DEF m
<1>8. /\ now.symbols = r.inputs /\ now.data = room.data
      /\ now.cse_map = Named(map, names, m) /\ DOMAIN now.cse_map \subseteq Fresh
  <2> HIDE DEF m, after, names, n
  <2> QED BY <1>3, <1>7
<1>9. /\ DOMAIN r.outputs = 1..Len(r.outputs)
      /\ \A k \in DOMAIN r.outputs :
           /\ DOMAIN r.outputs[k] = 1..Len(r.outputs[k])
           /\ \A j \in DOMAIN r.outputs[k] : r.outputs[k][j] \in ToSet(AllParts(r.outputs))
  BY OutputsAre
<1>10. /\ DOMAIN exprs = DOMAIN r.outputs
       /\ \A k \in DOMAIN r.outputs :
            /\ DOMAIN exprs[k] = DOMAIN r.outputs[k]
            /\ \A j \in DOMAIN r.outputs[k] :
                 \/ exprs[k][j] = r.outputs[k][j]
                 \/ \E h \in 1..n : parts[h] = r.outputs[k][j] /\ exprs[k][j] = <<names[h]>>
  <2>1. CASE ~ cse
    <3>1. exprs = r.outputs BY <2>1
    <3> HIDE DEF exprs, names, parts, n
    <3> QED BY <3>1
  <2>2. CASE cse
    <3>1. exprs = Reduced(r.outputs) /\ parts = Repeated(r.outputs) BY <2>2
    <3> HIDE DEF exprs, parts
    <3>2. DOMAIN Repeated(r.outputs) = 1..Len(Repeated(r.outputs)) BY <1>2, <3>1
    <3> QED BY <3>1, <3>2, ReducedIs
  <2> QED BY <2>1, <2>2
<1>11. DOMAIN all = DOMAIN r.outputs
  <2> HIDE DEF exprs, now
  <2> QED BY <1>10
<1>12. ASSUME NEW k \in DOMAIN r.outputs
       PROVE  /\ DOMAIN all[k] = DOMAIN r.outputs[k]
              /\ \A j \in DOMAIN r.outputs[k] : all[k][j] = Function(now, exprs[k][j])
  <2> HIDE DEF exprs, now
  <2>1. all[k] = [j \in DOMAIN exprs[k] |-> Function(now, exprs[k][j])]
    BY <1>10 DEF Functions
  <2> QED BY <2>1, <1>10
<1>13. ASSUME DOMAIN cse_fns = DOMAIN fns, NEW k \in DOMAIN r.outputs, NEW j \in DOMAIN r.outputs[k]
       PROVE  /\ \A i \in DOMAIN all[k][j] :
                   all[k][j][i].from = "memory" =>
                     all[k][j][i].address = room.data /\ all[k][j][i].index \in 1..n
              /\ ~ Throws(all[k][j]) =>
                   /\ Serves(r, parts, room.data, all[k][j], r.outputs[k][j])
                   /\ ToSet(r.outputs[k][j]) \subseteq ToSet(r.inputs)
  <2> DEFINE f == all[k][j]
             p == r.outputs[k][j]
  <2>1. f = Function(now, exprs[k][j])
    <3> HIDE DEF all, now, exprs
    <3> QED BY <1>12, SMTT(40)
  <2>2. CASE exprs[k][j] = p
    <3>1. p \in ToSet(AllParts(r.outputs))
      <4> HIDE DEF p
      <4> QED BY <1>9 DEF p
    <3>2. f = Function(now, p)
      <4> HIDE DEF f, now, exprs, p
      <4> QED BY <2>1, <2>2
    <3> HIDE DEF now, f, p
    <3>3. /\ \A i \in DOMAIN f : f[i].from # "memory"
          /\ ~ Throws(f) => f = Plain(r, p) /\ ToSet(p) \subseteq ToSet(r.inputs)
      BY <1>8, <3>1, <3>2, PartFunction
    <3>4. f = Plain(r, p) => Serves(r, parts, room.data, f, p) BY DEF Serves
    <3> HIDE DEF parts, n
    <3> QED BY <3>3, <3>4 DEF f, p
  <2>3. ASSUME NEW h \in 1..n, parts[h] = p, exprs[k][j] = <<names[h]>>
        PROVE  /\ \A i \in DOMAIN f :
                    f[i].from = "memory" => f[i].address = room.data /\ f[i].index \in 1..n
               /\ Serves(r, parts, room.data, f, p)
               /\ ToSet(p) \subseteq ToSet(r.inputs)
    <3>1. m = n BY <1>7, <1>13
    <3>2. m \in 0..Len(names) /\ h \in 1..m
      <4>1. Len(names) \in Nat BY NamesType, LenProperties
      <4> HIDE DEF m, n, names
      <4> QED BY <1>2, <3>1, <4>1
    <3> HIDE DEF f, p, now, exprs, all, m, cse_fns, fns
    <3>3. Lookup(now, names[h]) = Slot(room.data, h)
      <4>1. Lookup(now, names[h]) = Slot(now.data, h) BY <1>8, <3>2, NameLookup
      <4> QED BY <1>8, <4>1
    <3> HIDE DEF names
    <3>4. f = [i \in 1..1 |-> Slot(room.data, h)]
      <4>1. f = [i \in DOMAIN <<names[h]>> |-> Lookup(now, <<names[h]>>[i])]
        BY <2>1, <2>3 DEF Function
      <4>2. DOMAIN <<names[h]>> = 1..1 OBVIOUS
      <4>3. \A i \in 1..1 : <<names[h]>>[i] = names[h] OBVIOUS
      <4> QED BY <3>3, <4>1, <4>2, <4>3
    <3>5. Serves(r, parts, room.data, f, p)
      <4> HIDE DEF parts
      <4> QED BY <2>3, <3>4 DEF Serves
    <3>6. ASSUME NEW i \in DOMAIN f
          PROVE  f[i].address = room.data /\ f[i].index = h
      <4>1. i \in 1..1 BY <3>4
      <4>2. f[i] = Slot(room.data, h) BY <3>4, <4>1
      <4> QED BY <4>2 DEF Slot
    <3>7. ToSet(p) \subseteq ToSet(r.inputs)
      <4> HIDE DEF parts, n
      <4> QED BY <1>4, <1>6, <1>13, <2>3
    <3> HIDE DEF parts, n
    <3> QED BY <3>5, <3>6, <3>7
  <2>4. exprs[k][j] = p \/ \E h \in 1..n : parts[h] = p /\ exprs[k][j] = <<names[h]>>
    <3> HIDE DEF exprs, parts, names, n
    <3> QED BY <1>10, Zenon
  <2> HIDE DEF f, p, exprs, parts, names, n
  <2> QED BY <2>2, <2>3, <2>4 DEF f, p
<1>14. /\ \A k \in DOMAIN results :
            DOMAIN cse_fns = DOMAIN fns /\ k \in DOMAIN r.outputs /\ results[k] = all[k]
       /\ returned => \A k \in DOMAIN r.outputs : ~ AnyThrows(all[k])
  <2>1. U \in SUBSET DOMAIN all
    <3> HIDE DEF all
    <3> QED OBVIOUS
  <2>2. \A k \in DOMAIN all : k \in Int
    <3> HIDE DEF all
    <3> QED BY <1>9, <1>11
  <2>3. U = {} => \A k \in DOMAIN r.outputs : ~ AnyThrows(all[k])
    <3> HIDE DEF all
    <3> QED BY <1>11
  <2>4. CASE DOMAIN cse_fns = DOMAIN fns
    <3>1. results = UpToThrow(all, U) BY <2>4
    <3> HIDE DEF results, all, U, cse_fns, fns
    <3> QED BY <1>11, <2>1, <2>2, <2>3, <2>4, <3>1, UpToThrowIs
  <2>5. CASE DOMAIN cse_fns # DOMAIN fns
    <3>1. results = <<>> BY <2>5
    <3> HIDE DEF results, all, U, cse_fns, fns
    <3>2. DOMAIN results = {} BY <3>1
    <3> QED BY <2>5, <3>2
  <2> QED BY <2>4, <2>5
<1> HIDE DEF fns, cse_fns, m, now, all, exprs, results, U, T, after
<1>15. /\ l.results = results /\ l.cse_fns = cse_fns /\ l.data = room.data /\ l.size = room.size
       /\ l.capacity = room.capacity /\ l.ready = IF returned THEN r ELSE NoRequest
       /\ DOMAIN l.cse_map \subseteq Fresh
  <2>1. DOMAIN <<>> = {} OBVIOUS
  <2>2. l.cse_map = IF cleared THEN <<>> ELSE now.cse_map OBVIOUS
  <2>3. DOMAIN l.cse_map \subseteq Fresh
    <3> HIDE DEF l, cleared
    <3> QED BY <1>8, <2>1, <2>2
  <2> HIDE DEF returned
  <2> QED BY <2>3
<1> HIDE DEF l
<1>16. Pointed(l)
  <2>1. ASSUME NEW k \in DOMAIN l.cse_fns, NEW i \in DOMAIN l.cse_fns[k]
        PROVE  Good(l.cse_fns[k][i], l)
    <3>1. k \in 1..n /\ l.cse_fns[k] = fns[k] BY <1>6, <1>15
    <3>2. l.cse_fns[k][i].from # "memory" BY <1>4, <3>1
    <3> QED BY <3>2 DEF Good
  <2>2. ASSUME NEW k \in DOMAIN l.results, NEW j \in DOMAIN l.results[k],
               NEW i \in DOMAIN l.results[k][j]
        PROVE  Good(l.results[k][j][i], l)
    <3>1. DOMAIN cse_fns = DOMAIN fns /\ k \in DOMAIN r.outputs /\ l.results[k] = all[k]
      BY <1>14, <1>15
    <3>2. j \in DOMAIN r.outputs[k] BY <1>12, <3>1
    <3> DEFINE f == l.results[k][j][i]
    <3>3. f.from = "memory" => f.address = room.data /\ f.index \in 1..n
      <4> HIDE DEF n
      <4> QED BY <1>13, <3>1, <3>2
    <3> HIDE DEF f, n
    <3>4. f.from = "memory" => f.address = l.data /\ f.index \in 1..l.size
      BY <1>2, <1>15, <3>3
    <3> QED BY <3>4 DEF Good, f
  <2> QED BY <2>1, <2>2, ReadsAre
<1>17. Ready(l)
  <2>1. CASE ~ returned
    <3> HIDE DEF returned
    <3> QED BY <1>15, <2>1 DEF Ready
  <2>2. CASE returned
    <3>1. l.ready = r
      <4> HIDE DEF returned
      <4> QED BY <1>15, <2>2
    <3>2. DOMAIN cse_fns = DOMAIN fns /\ DOMAIN results = DOMAIN all BY <2>2
    <3>3. \A k \in 1..n : ~ Throws(fns[k]) BY <1>6, <3>2
    <3>4. \A k \in DOMAIN r.outputs : ~ AnyThrows(all[k]) BY <1>14, <2>2
    <3>5. ASSUME NEW k \in DOMAIN r.outputs, NEW j \in DOMAIN r.outputs[k]
          PROVE  /\ Serves(r, parts, room.data, all[k][j], r.outputs[k][j])
                 /\ ToSet(r.outputs[k][j]) \subseteq ToSet(r.inputs)
      <4>1. ~ Throws(all[k][j]) BY <1>12, <3>4 DEF AnyThrows
      <4> HIDE DEF parts, n
      <4> QED BY <1>13, <3>2, <4>1
    <3>6. ASSUME NEW p \in ToSet(AllParts(r.outputs)) PROVE ToSet(p) \subseteq ToSet(r.inputs)
      <4>1. PartOf(r.outputs, p)
        <5> DEFINE V == Seq(STRING)
        <5>1. r.outputs \in Seq(Seq(V)) BY DEF Fit
        <5> HIDE DEF V
        <5> QED BY <5>1, PartsType
      <4> QED BY <1>9, <3>5, <4>1 DEF PartOf
    <3>7. SymbolsOf(r.outputs) \subseteq ToSet(r.inputs) BY <3>6 DEF SymbolsOf
    <3>8. Serving(l, r, parts)
      <4> HIDE DEF parts, n, returned
      <4>1. n <= l.size BY <1>2, <1>15
      <4>2. l.cse_fns = [k \in 1..n |-> Plain(r, parts[k])]
        <5>1. \A k \in 1..n : fns[k] = Plain(r, parts[k]) BY <1>4, <3>3
        <5>2. l.cse_fns = [k \in 1..n |-> fns[k]] BY <1>5, <1>6, <1>15, <3>2
        <5> QED BY <5>1, <5>2
      <4>3. DOMAIN l.results = DOMAIN r.outputs BY <1>11, <1>15, <3>2
      <4>4. ASSUME NEW k \in DOMAIN r.outputs
            PROVE  /\ DOMAIN l.results[k] = DOMAIN r.outputs[k]
                   /\ \A j \in DOMAIN r.outputs[k] :
                        Serves(r, parts, l.data, l.results[k][j], r.outputs[k][j])
        <5>1. l.results[k] = all[k] /\ l.data = room.data BY <1>14, <1>15, <4>3
        <5> QED BY <1>12, <3>5, <5>1
      <4> QED BY <4>1, <4>2, <4>3, <4>4 DEF Serving, n
    <3>9. parts \in {<<>>, Repeated(r.outputs)} OBVIOUS
    <3> HIDE DEF parts, n, returned
    <3> QED BY <3>1, <3>7, <3>8, <3>9, Zenon DEF Ready
  <2> QED BY <2>1, <2>2
<1>18. Made(l) BY <1>15, <1>16, <1>17 DEF Made
<1> QED BY <1>1, <1>15, <1>18

-----------------------------------------------------------------------------
(* Whose memory an address is.                                             *)

(* A visitor has a vector of its capacity, or none.                        *)
Holds(l, mem) ==
  /\ l.capacity \in Nat /\ l.size \in 0..l.capacity
  /\ l.capacity = 0 => l.data = Null
  /\ l.capacity # 0 => l.data \in Addresses /\ DOMAIN mem[l.data] = 1..l.capacity

(* No two visitors have the same vector, and what is allocated is one's.   *)
Owned(lam, mem) ==
  /\ mem \in [Addresses -> Seq(Int)]
  /\ \A v \in Visitors : Holds(lam[v], mem)
  /\ \A v, w \in Visitors : v # w /\ lam[v].data = lam[w].data => lam[v].data = Null
  /\ \A a \in Addresses : mem[a] # Free => \E v \in Visitors : lam[v].data = a

(* The invariant.                                                          *)
IInv ==
  /\ lambda \in [Visitors -> {lambda[v] : v \in Visitors}]
  /\ Owned(lambda, memory)
  /\ \A v \in Visitors : Made(lambda[v])

(* There are more addresses than visitors, so that one is free.            *)
LEMMA FreeAddress ==
  ASSUME NEW lam, NEW mem, Owned(lam, mem), IsFiniteSet(Visitors)
  PROVE  /\ (CHOOSE a \in Addresses : mem[a] = Free) \in Addresses
         /\ mem[CHOOSE a \in Addresses : mem[a] = Free] = Free
<1> DEFINE data == [v \in Visitors |-> lam[v].data]
           taken == {data[v] : v \in Visitors}
           n == Cardinality(Visitors)
<1>1. n \in Nat BY FS_CardinalityType
<1>2. IsFiniteSet(taken) /\ Cardinality(taken) <= n
  <2>1. data \in Surjection(Visitors, taken)
    <3>1. data \in [Visitors -> taken] OBVIOUS
    <3> HIDE DEF data
    <3> QED BY <3>1 DEF Surjection
  <2> HIDE DEF data, taken
  <2> QED BY <2>1, FS_Surjection
<1>3. Cardinality(Addresses) = n + 1 BY <1>1, FS_Interval DEF Addresses
<1>4. \E a \in Addresses : mem[a] = Free
  <2> SUFFICES ASSUME \A a \in Addresses : mem[a] # Free PROVE FALSE
    OBVIOUS
  <2>1. \A a \in Addresses : \E v \in Visitors : data[v] = a BY DEF Owned
  <2>2. Addresses \in SUBSET taken
    <3> HIDE DEF data
    <3> QED BY <2>1
  <2> HIDE DEF taken
  <2>3. Cardinality(Addresses) <= Cardinality(taken) BY <1>2, <2>2, FS_Subset
  <2>4. Cardinality(taken) \in Nat BY <1>2, FS_CardinalityType
  <2> HIDE DEF n
  <2> QED BY <1>1, <1>2, <1>3, <2>3, <2>4
<1> QED BY <1>4

(* Nothing is owned in the beginning.                                      *)
LEMMA NewMade == Made(New) /\ New.capacity = 0 /\ New.size = 0 /\ New.data = Null
<1>1. /\ New.results = <<>> /\ New.cse_fns = <<>> /\ New.cse_map = <<>> /\ New.capacity = 0
      /\ New.size = 0 /\ New.data = Null /\ New.ready = NoRequest
  BY DEF New
<1>2. DOMAIN <<>> = {} OBVIOUS
<1>3. Pointed(New) BY <1>1, <1>2, ReadsAre
<1>4. Ready(New) BY <1>1 DEF Ready
<1>5. DOMAIN New.cse_map \subseteq Fresh BY <1>1, <1>2
<1> QED BY <1>1, <1>3, <1>4, <1>5 DEF Made

(* The initial state.                                                      *)
LEMMA InitHolds == LambdaInit => IInv
<1> SUFFICES ASSUME LambdaInit PROVE IInv
  OBVIOUS
<1>1. \A v \in Visitors : lambda[v] = New BY DEF LambdaInit
<1>2. lambda \in [Visitors -> {lambda[v] : v \in Visitors}] BY DEF LambdaInit
<1>3. memory \in [Addresses -> Seq(Int)] /\ \A a \in Addresses : memory[a] = Free
  <2>1. Free \in Seq(Int) BY DEF Free
  <2> QED BY <2>1 DEF LambdaInit
<1>4. \A v \in Visitors : Made(lambda[v]) /\ Holds(lambda[v], memory)
  BY <1>1, NewMade DEF Holds
<1>5. \A v \in Visitors : lambda[v].data = Null BY <1>1, NewMade
<1>6. Owned(lambda, memory) BY <1>3, <1>4, <1>5 DEF Owned
<1> QED BY <1>2, <1>4, <1>6 DEF IInv

(* The vector of one visitor is replaced: it keeps the one that it had, or *)
(* gets one at a free address for it.                                      *)
LEMMA OwnerChanges ==
  ASSUME NEW lam, NEW mem, Owned(lam, mem), NEW v \in Visitors, NEW other, NEW new,
         \A w \in Visitors : w # v => other[w] = lam[w],
         new \in [Addresses -> Seq(Int)], Holds(other[v], new),
         \/ /\ other[v].data = lam[v].data
            /\ \A a \in Addresses : DOMAIN new[a] = DOMAIN mem[a]
         \/ /\ other[v].data \in Addresses /\ mem[other[v].data] = Free
            /\ \A a \in Addresses :
                 a # other[v].data => new[a] = IF a = lam[v].data THEN Free ELSE mem[a]
  PROVE  Owned(other, new)
<1>1. ASSUME NEW w \in Visitors PROVE Holds(other[w], new)
  <2>1. CASE w = v BY <2>1
  <2>2. CASE w # v
    <3>1. other[w] = lam[w] /\ Holds(lam[w], mem) BY <2>2 DEF Owned
    <3>2. ASSUME lam[w].capacity # 0 PROVE DOMAIN new[lam[w].data] = DOMAIN mem[lam[w].data]
      <4>1. /\ lam[w].data \in Addresses /\ lam[w].capacity \in Nat
            /\ DOMAIN mem[lam[w].data] = 1..lam[w].capacity
        BY <3>1, <3>2 DEF Holds
      <4>2. lam[w].data # Null BY <4>1 DEF Addresses, Null
      <4>3. lam[w].data # lam[v].data BY <2>2, <4>2 DEF Owned
      <4>4. mem[lam[w].data] # Free
        <5>1. 1 \in DOMAIN mem[lam[w].data] BY <3>2, <4>1
        <5>2. DOMAIN Free = {} BY DEF Free
        <5> QED BY <5>1, <5>2
      <4> QED BY <4>1, <4>3, <4>4
    <3> QED BY <3>1, <3>2 DEF Holds
  <2> QED BY <2>1, <2>2
<1>2. ASSUME NEW w \in Visitors, w # v, other[w].data = other[v].data
      PROVE  other[w].data = Null
  <2>1. other[w] = lam[w] /\ Holds(lam[w], mem) BY <1>2 DEF Owned
  <2>2. CASE other[v].data = lam[v].data BY <1>2, <2>1, <2>2 DEF Owned
  <2>3. CASE other[v].data \in Addresses /\ mem[other[v].data] = Free
    <3>1. lam[w].data \in Addresses /\ mem[lam[w].data] = Free BY <1>2, <2>1, <2>3
    <3>2. DOMAIN Free = {} BY DEF Free
    <3>3. CASE lam[w].capacity # 0
      <4>1. DOMAIN mem[lam[w].data] = 1..lam[w].capacity /\ lam[w].capacity \in Nat
        BY <2>1, <3>3 DEF Holds
      <4>2. 1 \in 1..lam[w].capacity BY <3>3, <4>1
      <4> QED BY <3>1, <3>2, <4>1, <4>2
    <3>4. CASE lam[w].capacity = 0 BY <2>1, <3>4 DEF Holds
    <3> QED BY <3>3, <3>4
  <2> QED BY <2>2, <2>3
<1>3. ASSUME NEW w \in Visitors, NEW u \in Visitors, w # u, other[w].data = other[u].data
      PROVE  other[w].data = Null
  <2>1. CASE w = v BY <1>2, <1>3, <2>1
  <2>2. CASE u = v BY <1>2, <1>3, <2>2
  <2>3. CASE w # v /\ u # v BY <1>3, <2>3 DEF Owned
  <2> QED BY <2>1, <2>2, <2>3
<1>4. ASSUME NEW a \in Addresses, new[a] # Free PROVE \E w \in Visitors : other[w].data = a
  <2>1. CASE other[v].data = lam[v].data /\ \A b \in Addresses : DOMAIN new[b] = DOMAIN mem[b]
    <3>1. mem[a] # Free
      <4>1. new[a] \in Seq(Int) /\ Free = <<>> BY DEF Free
      <4>2. Len(new[a]) # 0 BY <1>4, <4>1, EmptySeq
      <4>3. DOMAIN new[a] = 1..Len(new[a]) /\ Len(new[a]) \in Nat BY <4>1, LenProperties
      <4>4. 1 \in DOMAIN new[a] BY <4>2, <4>3
      <4>5. DOMAIN Free = {} BY DEF Free
      <4> QED BY <2>1, <4>4, <4>5
    <3>2. PICK w \in Visitors : lam[w].data = a BY <3>1 DEF Owned
    <3> QED BY <2>1, <3>2
  <2>2. CASE /\ other[v].data \in Addresses /\ mem[other[v].data] = Free
             /\ \A b \in Addresses :
                  b # other[v].data => new[b] = IF b = lam[v].data THEN Free ELSE mem[b]
    <3>1. CASE a = other[v].data BY <3>1
    <3>2. CASE a # other[v].data
      <4>1. a # lam[v].data /\ mem[a] # Free BY <1>4, <2>2, <3>2
      <4>2. PICK w \in Visitors : lam[w].data = a BY <4>1 DEF Owned
      <4> QED BY <4>1, <4>2
    <3> QED BY <3>1, <3>2
  <2> QED BY <2>1, <2>2
<1> QED BY <1>1, <1>3, <1>4 DEF Owned

-----------------------------------------------------------------------------
(* What call computes.                                                     *)

(* The value of a part by the values of the inputs.                        *)
PlainValue(r, vector, p) ==
  LET value(x) == InputValue(vector, Place(r.inputs, x))
  IN IF Len(p) = 1 THEN value(p[1]) ELSE value(p[1]) + 3 * value(p[2])

(* What the parts, and what the expressions consist of, are to call.       *)
LEMMA PlainComputes ==
  ASSUME NEW r, Fit(r), NEW p \in ToSet(AllParts(r.outputs)), ToSet(p) \subseteq ToSet(r.inputs),
         NEW vector \in Int, NEW mem
  PROVE  /\ PartValue(mem, vector, Plain(r, p)) = PlainValue(r, vector, p)
         /\ PlainValue(r, vector, p) \in Int
<1> DEFINE value(x) == InputValue(vector, Place(r.inputs, x))
           f == Plain(r, p)
<1>1. p \in Seq(STRING) /\ Len(p) \in {1, 2}
  <2>1. AllParts(r.outputs) \in Seq(Seq(STRING)) BY PartsType DEF Fit
  <2> DEFINE V == Seq(STRING)
  <2>2. AllParts(r.outputs) \in Seq(V) BY <2>1
  <2> HIDE DEF V
  <2>3. p \in V BY <2>2, SeqFunction DEF ToSet
  <2> QED BY <2>3 DEF Fit, V
<1>2. DOMAIN p = 1..Len(p) /\ DOMAIN f = 1..Len(p)
  <2>1. DOMAIN p = 1..Len(p) BY <1>1, SeqFunction
  <2> QED BY <2>1 DEF Plain
<1>3. Len(f) = Len(p)
  <2>1. f = [k \in 1..Len(p) |-> Input(Place(r.inputs, p[k]))] BY <1>2 DEF Plain
  <2>2. Len(p) \in Nat BY <1>1
  <2> DEFINE g(k) == Input(Place(r.inputs, p[k]))
             V == {g(k) : k \in 1..Len(p)}
  <2>3. f \in [1..Len(p) -> V]
    <3> HIDE DEF g, f
    <3> QED BY <2>1 DEF g
  <2> HIDE DEF f, V
  <2> QED BY <2>2, <2>3, FunctionSeq
<1>4. ASSUME NEW k \in 1..Len(p)
      PROVE  Read(mem, vector, f[k]) = value(p[k]) /\ value(p[k]) \in Int
  <2>1. f[k] = Input(Place(r.inputs, p[k])) BY <1>2 DEF Plain
  <2>2. f[k].from = "input" /\ f[k].index = Place(r.inputs, p[k])
    <3> HIDE DEF f
    <3> QED BY <2>1 DEF Input
  <2>3. Read(mem, vector, f[k]) = value(p[k])
    <3> HIDE DEF f
    <3> QED BY <2>2 DEF Read
  <2>4. p[k] \in ToSet(r.inputs) BY <1>2 DEF ToSet
  <2>5. Place(r.inputs, p[k]) \in Int
    <3>1. DOMAIN r.inputs = 1..Len(r.inputs) BY SeqFunction DEF Fit
    <3>2. \E h \in DOMAIN r.inputs : r.inputs[h] = p[k] BY <2>4 DEF ToSet
    <3>3. Place(r.inputs, p[k]) \in DOMAIN r.inputs BY <3>2 DEF Place
    <3> QED BY <3>1, <3>3
  <2>6. \A h \in Int : InputValue(vector, h) \in Int BY DEF InputValue
  <2> HIDE DEF f
  <2> QED BY <2>3, <2>5, <2>6
<1>5. CASE Len(p) = 1
  <2>1. 1 \in 1..Len(p) BY <1>5
  <2> HIDE DEF f, value
  <2>2. PartValue(mem, vector, f) = value(p[1]) /\ value(p[1]) \in Int
    BY <1>3, <1>4, <1>5, <2>1 DEF PartValue
  <2>3. PlainValue(r, vector, p) = value(p[1]) BY <1>5 DEF PlainValue, value
  <2> QED BY <2>2, <2>3 DEF f
<1>6. CASE Len(p) = 2
  <2>1. 1 \in 1..Len(p) /\ 2 \in 1..Len(p) BY <1>6
  <2> HIDE DEF f, value
  <2>2. Len(f) # 1 BY <1>3, <1>6
  <2>3. PartValue(mem, vector, f) = value(p[1]) + 3 * value(p[2])
    BY <1>4, <2>1, <2>2 DEF PartValue
  <2>4. value(p[1]) \in Int /\ value(p[2]) \in Int BY <1>4, <2>1
  <2>5. PlainValue(r, vector, p) = value(p[1]) + 3 * value(p[2])
    <3>1. Len(p) # 1 BY <1>6
    <3> QED BY <3>1 DEF PlainValue, value
  <2> QED BY <2>3, <2>4, <2>5 DEF f
<1> QED BY <1>1, <1>5, <1>6

(* The memory when the visitor's own functions have written their values.  *)
Computes(l, r, vector, parts, mem) ==
  /\ mem \in [Addresses -> Seq(Int)]
  /\ \A a \in Addresses : DOMAIN mem[a] = DOMAIN memory[a]
  /\ \A h \in 1..Len(parts) : mem[l.data][h] = PlainValue(r, vector, parts[h])

(* call leaves the memory so, for a visitor that holds these parts.        *)
LEMMA FilledComputes ==
  ASSUME NEW l, NEW r, Fit(r), NEW vector \in Int, NEW parts \in {<<>>, Repeated(r.outputs)},
         Serving(l, r, parts), SymbolsOf(r.outputs) \subseteq ToSet(r.inputs),
         memory \in [Addresses -> Seq(Int)], Holds(l, memory)
  PROVE  Computes(l, r, vector, parts, Filled(l, vector))
<1> DEFINE n == Len(l.cse_fns)
           V == [Addresses -> Seq(Int)]
           Body(g, k) == IF k = 0 THEN memory
                         ELSE [g[k - 1] EXCEPT ![l.data][k] =
                                 PartValue(g[k - 1], vector, l.cse_fns[k])]
           g == CHOOSE g : g = [k \in 0..n |-> Body(g, k)]
           val(k) == PlainValue(r, vector, parts[k])
           step == [k \in 1..n |-> [m \in V |-> [m EXCEPT ![l.data][k] = val(k)]]]
<1>1. /\ Len(parts) \in Nat /\ DOMAIN parts = 1..Len(parts)
      /\ \A k \in 1..Len(parts) : parts[k] \in ToSet(AllParts(r.outputs))
  <2>1. CASE parts = <<>> BY <2>1
  <2>2. CASE parts = Repeated(r.outputs)
    <3>1. /\ Repeated(r.outputs) \in Seq(Seq(STRING))
          /\ \A k \in 1..Len(Repeated(r.outputs)) : Repeated(r.outputs)[k] \in ToSet(AllParts(r.outputs))
      BY RepeatedType
    <3>2. Len(parts) \in Nat /\ DOMAIN parts = 1..Len(parts) BY <2>2, <3>1, SeqFunction
    <3> QED BY <2>2, <3>1, <3>2
  <2> QED BY <2>1, <2>2
<1>2. n = Len(parts)
  <2> DEFINE W == {Plain(r, parts[k]) : k \in 1..Len(parts)}
  <2>1. l.cse_fns = [k \in 1..Len(parts) |-> Plain(r, parts[k])] BY DEF Serving
  <2>2. l.cse_fns \in [1..Len(parts) -> W] BY <2>1
  <2> HIDE DEF W
  <2> QED BY <1>1, <2>2, FunctionSeq
<1>3. n \in Nat /\ \A k \in 1..n : l.cse_fns[k] = Plain(r, parts[k])
  <2> HIDE DEF n
  <2> QED BY <1>1, <1>2 DEF Serving
<1>4. ASSUME NEW k \in 1..n, NEW mem
      PROVE  PartValue(mem, vector, l.cse_fns[k]) = val(k) /\ val(k) \in Int
  <2>1. parts[k] \in ToSet(AllParts(r.outputs)) BY <1>1, <1>2
  <2>2. ToSet(parts[k]) \subseteq ToSet(r.inputs) BY <2>1 DEF SymbolsOf
  <2>3. l.cse_fns[k] = Plain(r, parts[k]) BY <1>3
  <2> HIDE DEF n
  <2> QED BY <2>1, <2>2, <2>3, PlainComputes
<1>5. ASSUME NEW k \in 1..n
      PROVE  l.data \in Addresses /\ k \in DOMAIN memory[l.data]
  <2>1. k <= l.size /\ l.size \in 0..l.capacity /\ l.capacity \in Nat /\ k \in Nat
    <3> HIDE DEF n
    <3> QED BY <1>2, <1>3 DEF Serving, Holds
  <2>2. l.capacity # 0 /\ k \in 1..l.capacity
    <3>1. k # 0
      <4> HIDE DEF n
      <4> QED BY <1>3
    <3> HIDE DEF n
    <3> QED BY <2>1, <3>1
  <2> QED BY <2>2 DEF Holds
<1> HIDE DEF n, val
<1>6. ASSUME NEW k \in 1..n, NEW m \in V PROVE [m EXCEPT ![l.data][k] = val(k)] \in V
  <2>1. m[l.data] \in Seq(Int) BY <1>5
  <2>2. [m[l.data] EXCEPT ![k] = val(k)] \in Seq(Int)
    <3>1. val(k) \in Int BY <1>4
    <3> DEFINE s == m[l.data]
    <3>2. s \in [1..Len(s) -> Int] /\ Len(s) \in Nat BY <2>1, SeqFunction
    <3> HIDE DEF s
    <3>3. [s EXCEPT ![k] = val(k)] \in [1..Len(s) -> Int] BY <3>1, <3>2
    <3>4. [s EXCEPT ![k] = val(k)] \in Seq(Int) BY <3>2, <3>3, FunctionSeq
    <3> QED BY <3>4 DEF s
  <2> QED BY <2>2
<1>7. step \in [1..n -> [V -> V]]
  <2> HIDE DEF V
  <2> QED BY <1>6
<1>8. PICK x : Iterates(n, V, memory, step, x)
  <2>1. memory \in V OBVIOUS
  <2> HIDE DEF V, step
  <2> QED BY <1>3, <1>7, <2>1, Iteration
<1>9. ASSUME NEW k \in 1..n
      PROVE  /\ x[k - 1] \in V /\ x[k] \in V
             /\ x[k] = [x[k - 1] EXCEPT ![l.data][k] = val(k)]
  <2>1. k - 1 \in 0..n /\ k \in 0..n BY <1>3
  <2>2. x[k - 1] \in V /\ x[k] \in V
    <3> HIDE DEF V, step
    <3> QED BY <1>8, <2>1 DEF Iterates
  <2>3. x[k] = step[k][x[k - 1]]
    <3> HIDE DEF V, step
    <3> QED BY <1>8 DEF Iterates
  <2>4. step[k][x[k - 1]] = [x[k - 1] EXCEPT ![l.data][k] = val(k)]
    <3> HIDE DEF V
    <3> QED BY <2>2
  <2> HIDE DEF step, V
  <2> QED BY <2>2, <2>3, <2>4
<1>10. x[0] = memory /\ DOMAIN x = 0..n
  <2> HIDE DEF V, step
  <2> QED BY <1>8 DEF Iterates
<1>11. x = [k \in 0..n |-> Body(x, k)]
  <2>1. ASSUME NEW k \in 0..n PROVE x[k] = Body(x, k)
    <3>1. CASE k = 0 BY <1>10, <3>1
    <3>2. CASE k # 0
      <4>1. k \in 1..n BY <1>3, <3>2
      <4>2. val(k) = PartValue(x[k - 1], vector, l.cse_fns[k]) BY <1>4, <4>1
      <4> QED BY <1>9, <3>2, <4>1, <4>2
    <3> QED BY <3>1, <3>2
  <2>2. x = [k \in DOMAIN x |-> x[k]]
    <3> HIDE DEF V, step
    <3> QED BY <1>8 DEF Iterates
  <2> HIDE DEF Body
  <2> QED BY <1>10, <2>1, <2>2
<1>12. g = [k \in 0..n |-> Body(g, k)]
  <2> HIDE DEF Body
  <2> QED BY <1>11, Zenon
<1>13. Filled(l, vector) = g[n] BY DEF Filled, n

<1>14. ASSUME NEW k \in 0..n PROVE g[k] = Body(g, k)
  <2> HIDE DEF Body, g
  <2> QED BY <1>12
<1>15. g[0] = memory
  <2>1. 0 \in 0..n BY <1>3
  <2>2. g[0] = Body(g, 0)
    <3> HIDE DEF g, Body
    <3> QED BY <1>14, <2>1
  <2> HIDE DEF g
  <2> QED BY <2>2
<1>16. ASSUME NEW k \in 1..n PROVE g[k] = [g[k - 1] EXCEPT ![l.data][k] = val(k)]
  <2>1. k \in 0..n /\ k # 0 BY <1>3
  <2>2. g[k] = Body(g, k)
    <3> HIDE DEF g, Body
    <3> QED BY <1>14, <2>1
  <2> HIDE DEF g
  <2>3. PartValue(g[k - 1], vector, l.cse_fns[k]) = val(k) BY <1>4
  <2> QED BY <2>1, <2>2, <2>3
<1> HIDE DEF g
<1> DEFINE State(m, k) == /\ m \in V
                          /\ \A a \in Addresses : DOMAIN m[a] = DOMAIN memory[a]
                          /\ \A h \in 1..k : m[l.data][h] = val(h)
           T == {k \in Nat : k <= n => State(g[k], k)}
<1>17. 0 \in T BY <1>15
<1>18. ASSUME NEW k \in Nat, k \in T PROVE k + 1 \in T
  <2> SUFFICES ASSUME k + 1 <= n PROVE State(g[k + 1], k + 1)
    <3> HIDE DEF State
    <3> QED OBVIOUS
  <2>1. k + 1 \in 1..n /\ (k + 1) - 1 = k /\ k <= n BY <1>3
  <2>2. State(g[k], k)
    <3> HIDE DEF State
    <3> QED BY <1>18, <2>1
  <2> DEFINE m == g[k]
             c == k + 1
  <2>3. g[c] = [m EXCEPT ![l.data][c] = val(c)]
    <3>1. c \in 1..n /\ c - 1 = k BY <2>1
    <3> HIDE DEF c
    <3> QED BY <1>16, <3>1
  <2>4. m \in V /\ c \in 1..n BY <2>1, <2>2
  <2>5. g[c] \in V
    <3> HIDE DEF V, m, c
    <3> QED BY <1>6, <2>3, <2>4
  <2>6. l.data \in Addresses /\ c \in DOMAIN m[l.data]
    <3>1. l.data \in Addresses /\ c \in DOMAIN memory[l.data]
      <4> HIDE DEF c
      <4> QED BY <1>5, <2>4
    <3> QED BY <2>2, <3>1
  <2>7. \A a \in Addresses : DOMAIN g[c][a] = DOMAIN m[a]
    <3> HIDE DEF c, m
    <3> QED BY <2>3, <2>4, <2>6
  <2>8. g[c][l.data] = [m[l.data] EXCEPT ![c] = val(c)]
    <3> HIDE DEF c, m
    <3> QED BY <2>3, <2>4, <2>6
  <2>9. ASSUME NEW h \in 1..c PROVE g[c][l.data][h] = val(h)
    <3>1. CASE h = c
      <4> HIDE DEF c, m
      <4> QED BY <2>6, <2>8, <3>1
    <3>2. CASE h # c
      <4>1. h \in 1..k BY <3>2
      <4>2. m[l.data][h] = val(h) BY <2>2, <4>1
      <4>3. g[c][l.data][h] = m[l.data][h]
        <5> HIDE DEF c, m
        <5> QED BY <2>8, <3>2
      <4> QED BY <4>2, <4>3
    <3> QED BY <3>1, <3>2
  <2>10. \A a \in Addresses : DOMAIN g[c][a] = DOMAIN memory[a] BY <2>2, <2>7
  <2> HIDE DEF V
  <2> QED BY <2>5, <2>9, <2>10
<1>19. State(g[n], n)
  <2>1. Nat \subseteq T
    <3> HIDE DEF T
    <3> QED BY <1>17, <1>18, NatSetInduction
  <2> HIDE DEF State
  <2> QED BY <1>3, <2>1
<1>20. \A h \in 1..Len(parts) : g[n][l.data][h] = PlainValue(r, vector, parts[h])
  BY <1>2, <1>19 DEF val
<1> HIDE DEF n
<1> QED BY <1>13, <1>19, <1>20 DEF Computes

-----------------------------------------------------------------------------
(* The steps.                                                              *)

(* The assumptions, request by request.                                    *)
LEMMA RequestsAreFit ==
  ASSUME RequestsFit, NamesKnown
  PROVE  IsFiniteSet(Visitors) /\ Vectors \subseteq Int /\ \A r \in Requests : Fit(r)
BY DEF RequestsFit, NamesKnown, Fit, Fresh

(* init, of which the vector moves if it has not room enough.              *)
LEMMA InitVisitorStep ==
  ASSUME RequestsFit, NamesKnown, IInv, NEW v \in Visitors, InitVisitor(v)
  PROVE  IInv'
<1> DEFINE l == lambda[v]
           fresh == CHOOSE a \in Addresses : memory[a] = Free
<1>1. /\ memory \in [Addresses -> Seq(Int)] /\ Holds(l, memory) /\ Made(l)
      /\ lambda \in [Visitors -> {lambda[w] : w \in Visitors}] /\ Owned(lambda, memory)
      /\ \A w \in Visitors : Made(lambda[w])
  BY DEF IInv, Owned
<1>2. fresh \in Addresses /\ memory[fresh] = Free
  BY <1>1, RequestsAreFit, FreeAddress
<1> HIDE DEF fresh
<1>3. PICK r \in Requests, cse \in BOOLEAN :
        /\ lambda' = [lambda EXCEPT ![v] =
                        Compiled(l.cse_map,
                                 IF cse THEN Resized(l, Len(Repeated(r.outputs)), fresh) ELSE l,
                                 r, cse)]
        /\ memory' = IF cse /\ Len(Repeated(r.outputs)) > l.capacity
                     THEN Reallocated(l, Len(Repeated(r.outputs)), fresh) ELSE memory
  BY DEF InitVisitor, fresh
<1> DEFINE n == Len(Repeated(r.outputs))
           room == IF cse THEN Resized(l, n, fresh) ELSE l
           done == Compiled(l.cse_map, room, r, cse)
<1>4. Fit(r) /\ n \in Nat
  <2>1. Fit(r) BY RequestsAreFit
  <2> QED BY <2>1, RepeatedType, LenProperties
<1> HIDE DEF n
<1>5. l.capacity \in Nat /\ l.size \in 0..l.capacity BY <1>1 DEF Holds
<1>6. /\ room.size \in Nat /\ cse => room.size = n
      /\ ~ (cse /\ n > l.capacity) =>
           /\ room.data = l.data /\ room.capacity = l.capacity /\ room.size \in 0..l.capacity
      /\ cse /\ n > l.capacity => room.data = fresh /\ room.capacity = n /\ room.size = n
  <2>1. CASE cse
    <3>1. room = IF n <= l.capacity THEN [data |-> l.data, size |-> n, capacity |-> l.capacity]
                                    ELSE [data |-> fresh, size |-> n, capacity |-> n]
      BY <2>1 DEF Resized
    <3> HIDE DEF room, l
    <3> QED BY <1>4, <1>5, <2>1, <3>1
  <2>2. CASE ~ cse
    <3>1. room = l BY <2>2
    <3> HIDE DEF room, l
    <3> QED BY <1>5, <2>2, <3>1
  <2> QED BY <2>1, <2>2
<1>7. Made(done) /\ done.data = room.data /\ done.size = room.size /\ done.capacity = room.capacity
  <2>1. DOMAIN l.cse_map \subseteq Fresh BY <1>1 DEF Made
  <2>2. cse => room.size = Len(Repeated(r.outputs)) BY <1>6 DEF n
  <2> HIDE DEF l, room
  <2> QED BY <1>4, <1>6, <2>1, <2>2, CompiledMade
<1>8. lambda' = [lambda EXCEPT ![v] = done] BY <1>3 DEF n
<1>9. memory' = IF cse /\ n > l.capacity THEN Reallocated(l, n, fresh) ELSE memory
  BY <1>3 DEF n
<1> HIDE DEF done, room
<1>10. /\ lambda'[v] = done /\ \A w \in Visitors : w # v => lambda'[w] = lambda[w]
       /\ lambda' \in [Visitors -> {lambda'[w] : w \in Visitors}]
  <2> HIDE DEF l
  <2> QED BY <1>1, <1>8
<1>11. \A w \in Visitors : Made(lambda'[w]) BY <1>1, <1>7, <1>10
<1>12. Owned(lambda', memory')
  <2>1. CASE ~ (cse /\ n > l.capacity)
    <3>1. memory' = memory
      <4> HIDE DEF l
      <4> QED BY <1>9, <2>1
    <3>2. Holds(done, memory)
      <4> HIDE DEF l
      <4> QED BY <1>1, <1>6, <1>7, <2>1 DEF Holds
    <3>3. done.data = l.data BY <1>6, <1>7, <2>1
    <3> PICK lam, mem, other :
          lam = lambda /\ mem = memory /\ other = lambda'
      OBVIOUS
    <3>4. Owned(lam, mem) /\ mem \in [Addresses -> Seq(Int)] BY <1>1
    <3>5. \A w \in Visitors : w # v => other[w] = lam[w] BY <1>10
    <3>6. Holds(other[v], mem) /\ other[v].data = lam[v].data BY <1>10, <3>2, <3>3
    <3>7. \A a \in Addresses : DOMAIN mem[a] = DOMAIN mem[a] OBVIOUS
    <3>8. Owned(other, mem)
      <4> HIDE DEF l
      <4> QED BY <3>4, <3>5, <3>6, <3>7, OwnerChanges
    <3> QED BY <3>1, <3>8
  <2>2. CASE cse /\ n > l.capacity
    <3>1. memory' = [a \in Addresses |->
                       IF a = fresh THEN [k \in 1..n |-> IF k <= l.size THEN memory[l.data][k] ELSE 0]
                       ELSE IF a = l.data THEN Free ELSE memory[a]]
      <4>1. memory' = Reallocated(l, n, fresh)
        <5> HIDE DEF l
        <5> QED BY <1>9, <2>2
      <4> QED BY <4>1 DEF Reallocated
    <3> DEFINE s == [k \in 1..n |-> IF k <= l.size THEN memory[l.data][k] ELSE 0]
    <3>2. s \in Seq(Int) /\ DOMAIN s = 1..n
      <4>1. ASSUME NEW k \in 1..n, k <= l.size PROVE memory[l.data][k] \in Int
        <5>1. k \in Nat /\ k # 0 BY <1>4
        <5>2. l.capacity # 0 /\ k \in 1..l.capacity
          <6> HIDE DEF l
          <6> QED BY <1>5, <4>1, <5>1
        <5>3. memory[l.data] \in Seq(Int) /\ k \in DOMAIN memory[l.data]
          <6> HIDE DEF l
          <6> QED BY <1>1, <5>2 DEF Holds
        <5> DEFINE t == memory[l.data]
        <5> HIDE DEF t
        <5>4. t \in [1..Len(t) -> Int] /\ DOMAIN t = 1..Len(t) BY <5>3, SeqFunction DEF t
        <5> QED BY <5>3, <5>4 DEF t
      <4> HIDE DEF l
      <4>2. s \in [1..n -> Int] BY <4>1
      <4> HIDE DEF s
      <4> QED BY <1>4, <4>2, FunctionSeq
    <3>3. memory'[fresh] = s /\ \A a \in Addresses : a # fresh => memory'[a] = IF a = l.data THEN Free ELSE memory[a]
      <4> HIDE DEF l
      <4> QED BY <1>2, <3>1
    <3>4. memory' \in [Addresses -> Seq(Int)]
      <4>1. Free \in Seq(Int) BY DEF Free
      <4>2. memory' = [a \in Addresses |-> IF a = fresh THEN s ELSE IF a = l.data THEN Free ELSE memory[a]]
        BY <3>1
      <4> HIDE DEF l, s
      <4> QED BY <1>1, <3>2, <4>1, <4>2
    <3> HIDE DEF s
    <3>5. Holds(done, memory')
      <4>1. n # 0
        <5> HIDE DEF l
        <5> QED BY <1>4, <1>5, <2>2
      <4>2. done.data = fresh /\ done.capacity = n /\ done.size = n
        <5> HIDE DEF l
        <5> QED BY <1>6, <1>7, <2>2
      <4> QED BY <1>2, <1>4, <3>2, <3>3, <4>1, <4>2 DEF Holds
    <3>6. done.data = fresh
      <4> HIDE DEF l
      <4> QED BY <1>6, <1>7, <2>2
    <3> PICK lam, mem, other, new :
          lam = lambda /\ mem = memory /\ other = lambda' /\ new = memory'
      OBVIOUS
    <3>8. Owned(lam, mem) BY <1>1
    <3>9. \A w \in Visitors : w # v => other[w] = lam[w] BY <1>10
    <3>10. new \in [Addresses -> Seq(Int)] BY <3>4
    <3>11. Holds(other[v], new) BY <1>10, <3>5
    <3>12. other[v].data \in Addresses /\ mem[other[v].data] = Free BY <1>2, <1>10, <3>6
    <3>13. \A a \in Addresses :
             a # other[v].data => new[a] = IF a = lam[v].data THEN Free ELSE mem[a]
      BY <1>10, <3>3, <3>6
    <3>14. Owned(other, new)
      <4> HIDE DEF l
      <4> QED BY <3>8, <3>9, <3>10, <3>11, <3>12, <3>13, OwnerChanges
    <3> QED BY <3>14
  <2> QED BY <2>1, <2>2
<1> QED BY <1>10, <1>11, <1>12 DEF IInv

(* call.                                                                   *)
LEMMA CallStep ==
  ASSUME RequestsFit, NamesKnown, IInv, NEW v \in Visitors, Call(v)
  PROVE  IInv'
<1> DEFINE l == lambda[v]
           r == l.ready
<1>1. /\ memory \in [Addresses -> Seq(Int)] /\ Holds(l, memory) /\ Made(l)
      /\ Owned(lambda, memory)
  BY DEF IInv, Owned
<1>2. PICK vector \in Vectors : memory' = Filled(l, vector) BY DEF Call
<1>3. l.ready # NoRequest /\ UNCHANGED lambda BY DEF Call
<1> HIDE DEF l
<1>4. /\ r \in Requests /\ SymbolsOf(r.outputs) \subseteq ToSet(r.inputs)
      /\ \E parts \in {<<>>, Repeated(r.outputs)} : Serving(l, r, parts)
  BY <1>1, <1>3 DEF Made, Ready
<1> HIDE DEF r
<1>5. PICK parts \in {<<>>, Repeated(r.outputs)} : Serving(l, r, parts) BY <1>4
<1>6. Fit(r) /\ vector \in Int BY <1>4, RequestsAreFit
<1>7. Computes(l, r, vector, parts, memory') BY <1>1, <1>2, <1>4, <1>5, <1>6, FilledComputes
<1>8. /\ memory' \in [Addresses -> Seq(Int)]
      /\ \A a \in Addresses : DOMAIN memory'[a] = DOMAIN memory[a]
  BY <1>7 DEF Computes
<1>9. Holds(l, memory') BY <1>1, <1>8 DEF Holds
<1>10. Owned(lambda, memory') BY <1>1, <1>8, <1>9, OwnerChanges DEF l
<1>11. Owned(lambda', memory') BY <1>3, <1>10
<1>12. \A w \in Visitors : Made(lambda'[w]) BY <1>3 DEF IInv
<1>13. lambda' \in [Visitors -> {lambda'[w] : w \in Visitors}] BY <1>3 DEF IInv
<1> QED BY <1>11, <1>12, <1>13 DEF IInv

(* A move frees the vector of the visitor that is moved to.                *)
LEMMA MoveOwned ==
  ASSUME NEW lam, NEW mem, Owned(lam, mem), NEW v \in Visitors, NEW w \in Visitors, v # w,
         NEW other, NEW new, other[w] = lam[v], other[v] = New,
         \A u \in Visitors : u # v /\ u # w => other[u] = lam[u],
         new = [a \in Addresses |-> IF a = lam[w].data THEN Free ELSE mem[a]]
  PROVE  Owned(other, new)
<1>1. new \in [Addresses -> Seq(Int)]
  <2>1. Free \in Seq(Int) BY DEF Free
  <2> QED BY <2>1 DEF Owned
<1>2. ASSUME NEW u \in Visitors, u # w PROVE Holds(lam[u], new)
  <2>1. Holds(lam[u], mem) BY DEF Owned
  <2>2. CASE lam[u].capacity # 0
    <3>1. lam[u].data \in Addresses BY <2>1, <2>2 DEF Holds
    <3>2. lam[u].data # Null BY <3>1 DEF Addresses, Null
    <3>3. lam[u].data # lam[w].data BY <1>2, <3>2 DEF Owned
    <3>4. new[lam[u].data] = mem[lam[u].data] BY <3>1, <3>3
    <3> QED BY <2>1, <3>4 DEF Holds
  <2>3. CASE lam[u].capacity = 0 BY <2>1, <2>3 DEF Holds
  <2> QED BY <2>2, <2>3
<1>3. Holds(New, new) BY NewMade DEF Holds
<1>4. \A u \in Visitors : Holds(other[u], new) BY <1>2, <1>3
<1>5. ASSUME NEW t \in Visitors, NEW u \in Visitors, t # u, other[t].data = other[u].data
      PROVE  other[t].data = Null
  <2>1. other[v].data = Null BY NewMade
  <2>2. CASE t = v \/ u = v BY <1>5, <2>1, <2>2
  <2>3. CASE t # v /\ u # v
    <3>1. CASE t = w BY <1>5, <2>3, <3>1 DEF Owned
    <3>2. CASE u = w BY <1>5, <2>3, <3>2 DEF Owned
    <3>3. CASE t # w /\ u # w BY <1>5, <2>3, <3>3 DEF Owned
    <3> QED BY <3>1, <3>2, <3>3
  <2> QED BY <2>2, <2>3
<1>6. ASSUME NEW a \in Addresses, new[a] # Free PROVE \E u \in Visitors : other[u].data = a
  <2>1. a # lam[w].data /\ mem[a] # Free BY <1>6
  <2>2. PICK u \in Visitors : lam[u].data = a BY <2>1 DEF Owned
  <2>3. CASE u = v BY <2>2, <2>3
  <2>4. CASE u # v BY <2>1, <2>2, <2>4
  <2> QED BY <2>3, <2>4
<1> QED BY <1>1, <1>4, <1>5, <1>6 DEF Owned

(* The move of a visitor.                                                  *)
LEMMA MoveStep ==
  ASSUME IInv, NEW v \in Visitors, NEW w \in Visitors, Move(v, w)
  PROVE  IInv'
<1>1. /\ lambda \in [Visitors -> {lambda[u] : u \in Visitors}] /\ Owned(lambda, memory)
      /\ \A u \in Visitors : Made(lambda[u])
  BY DEF IInv
<1>2. /\ v # w /\ lambda' = [lambda EXCEPT ![w] = lambda[v], ![v] = New]
      /\ memory' = [a \in Addresses |-> IF a = lambda[w].data THEN Free ELSE memory[a]]
  BY DEF Move
<1>3. /\ lambda'[w] = lambda[v] /\ lambda'[v] = New
      /\ \A u \in Visitors : u # v /\ u # w => lambda'[u] = lambda[u]
      /\ lambda' \in [Visitors -> {lambda'[u] : u \in Visitors}]
  BY <1>1, <1>2
<1>4. Owned(lambda', memory')
  <2> PICK lam, mem, other, new :
        lam = lambda /\ mem = memory /\ other = lambda' /\ new = memory'
    OBVIOUS
  <2>1. /\ Owned(lam, mem) /\ v # w /\ other[w] = lam[v] /\ other[v] = New
        /\ \A u \in Visitors : u # v /\ u # w => other[u] = lam[u]
        /\ new = [a \in Addresses |-> IF a = lam[w].data THEN Free ELSE mem[a]]
    BY <1>1, <1>2, <1>3
  <2>2. Owned(other, new) BY <2>1, MoveOwned
  <2> QED BY <2>2
<1>5. \A u \in Visitors : Made(lambda'[u]) BY <1>1, <1>3, NewMade
<1> QED BY <1>3, <1>4, <1>5 DEF IInv

(* Every step.                                                             *)
LEMMA NextHolds ==
  ASSUME RequestsFit, NamesKnown, IInv, [LambdaNext]_lambdaVars
  PROVE  IInv'
<1>1. CASE UNCHANGED lambdaVars BY <1>1 DEF IInv, lambdaVars
<1>2. CASE \E v \in Visitors : InitVisitor(v) BY <1>2, InitVisitorStep
<1>3. CASE \E v \in Visitors : Call(v) BY <1>3, CallStep
<1>4. CASE \E v, w \in Visitors : Move(v, w) BY <1>4, MoveStep
<1> QED BY <1>1, <1>2, <1>3, <1>4 DEF LambdaNext

-----------------------------------------------------------------------------
(* What the invariant says of the properties.                              *)

(* No expressions have no symbols.                                         *)
LEMMA NoSymbols == SymbolsOf(NoRequest.outputs) = {}
<1>1. NoRequest.outputs = <<>> BY DEF NoRequest
<1>2. AllParts(<<>>) = <<>> BY DEF AllParts, FlattenSeq
<1>3. ToSet(<<>>) = {} BY DEF ToSet
<1> QED BY <1>1, <1>2, <1>3 DEF SymbolsOf

(* What call reads for a part, after it has filled the vector.             *)
LEMMA PartComputes ==
  ASSUME NEW l, NEW r, Fit(r), NEW vector \in Int, NEW parts, NEW mem,
         Computes(l, r, vector, parts, mem), NEW f, NEW p \in ToSet(AllParts(r.outputs)),
         ToSet(p) \subseteq ToSet(r.inputs), Serves(r, parts, l.data, f, p)
  PROVE  PartValue(mem, vector, f) = PlainValue(r, vector, p)
<1>1. CASE f = Plain(r, p) BY <1>1, PlainComputes
<1>2. ASSUME NEW h \in 1..Len(parts), parts[h] = p, f = [k \in 1..1 |-> Slot(l.data, h)]
      PROVE  PartValue(mem, vector, f) = PlainValue(r, vector, p)
  <2> DEFINE V == {Slot(l.data, h)}
  <2>1. f \in [1..1 -> V] BY <1>2
  <2>2. Len(f) = 1
    <3> HIDE DEF V
    <3> QED BY <2>1, FunctionSeq
  <2>3. f[1] = Slot(l.data, h) BY <1>2
  <2>4. Slot(l.data, h).from # "input" /\ Slot(l.data, h).address = l.data /\ Slot(l.data, h).index = h
    BY DEF Slot
  <2>5. Read(mem, vector, f[1]) = mem[l.data][h] BY <2>3, <2>4 DEF Read
  <2>6. mem[l.data][h] = PlainValue(r, vector, p) BY <1>2 DEF Computes
  <2> QED BY <2>2, <2>5, <2>6 DEF PartValue
<1> QED BY <1>1, <1>2 DEF Serves

(* call on a visitor that holds a request.                                 *)
LEMMA EvaluatesIfServing ==
  ASSUME RequestsFit, NamesKnown, IInv, NEW v \in Visitors, NEW vector \in Vectors,
         lambda[v].ready # NoRequest
  PROVE  Outs(lambda[v], vector) =
           [k \in DOMAIN lambda[v].ready.outputs |->
              Expected(lambda[v].ready, vector, lambda[v].ready.outputs[k])]
<1> DEFINE l == lambda[v]
           r == l.ready
           mem == Filled(l, vector)
           out(fs) == SumOf([j \in DOMAIN fs |-> PartValue(mem, vector, fs[j])])
<1>1. /\ memory \in [Addresses -> Seq(Int)] /\ Holds(l, memory) /\ Made(l) /\ r # NoRequest
  BY DEF IInv, Owned
<1> HIDE DEF l
<1>2. /\ r \in Requests /\ SymbolsOf(r.outputs) \subseteq ToSet(r.inputs)
      /\ \E parts \in {<<>>, Repeated(r.outputs)} : Serving(l, r, parts)
  BY <1>1 DEF Made, Ready
<1> HIDE DEF r
<1>3. PICK parts \in {<<>>, Repeated(r.outputs)} : Serving(l, r, parts) BY <1>2
<1>4. Fit(r) /\ vector \in Int BY <1>2, RequestsAreFit
<1>5. Computes(l, r, vector, parts, mem) BY <1>1, <1>2, <1>3, <1>4, FilledComputes
<1> HIDE DEF mem
<1>6. ASSUME NEW k \in DOMAIN r.outputs, NEW j \in DOMAIN r.outputs[k]
      PROVE  PartValue(mem, vector, l.results[k][j]) = PlainValue(r, vector, r.outputs[k][j])
  <2>1. Serves(r, parts, l.data, l.results[k][j], r.outputs[k][j]) BY <1>3 DEF Serving
  <2>2. r.outputs[k][j] \in ToSet(AllParts(r.outputs)) BY <1>4, OutputsAre
  <2>3. ToSet(r.outputs[k][j]) \subseteq ToSet(r.inputs) BY <1>2, <2>2 DEF SymbolsOf
  <2> QED BY <1>4, <1>5, <2>1, <2>2, <2>3, PartComputes
<1>7. ASSUME NEW k \in DOMAIN r.outputs
      PROVE  out(l.results[k]) = Expected(r, vector, r.outputs[k])
  <2>1. DOMAIN l.results[k] = DOMAIN r.outputs[k] BY <1>3 DEF Serving
  <2>2. [j \in DOMAIN l.results[k] |-> PartValue(mem, vector, l.results[k][j])]
          = [j \in DOMAIN r.outputs[k] |-> PlainValue(r, vector, r.outputs[k][j])]
    BY <1>6, <2>1
  <2>3. Expected(r, vector, r.outputs[k])
          = SumOf([j \in DOMAIN r.outputs[k] |-> PlainValue(r, vector, r.outputs[k][j])])
    BY DEF Expected, PlainValue
  <2> QED BY <2>2, <2>3
<1>8. Outs(l, vector) = [k \in DOMAIN l.results |-> out(l.results[k])] BY DEF Outs, mem
<1>9. DOMAIN l.results = DOMAIN r.outputs BY <1>3 DEF Serving
<1> HIDE DEF out
<1>10. Outs(l, vector) = [k \in DOMAIN r.outputs |-> Expected(r, vector, r.outputs[k])]
  BY <1>7, <1>8, <1>9
<1> QED BY <1>10 DEF l, r

-----------------------------------------------------------------------------
(* The theorems.                                                           *)

(* The invariant holds: of memory and of what init makes.                  *)
THEOREM InvariantHolds == RequestsFit /\ NamesKnown => (LambdaSpec => []IInv)
<1> SUFFICES ASSUME RequestsFit, NamesKnown PROVE LambdaSpec => []IInv
  OBVIOUS
<1>1. LambdaInit => IInv BY InitHolds
<1>2. IInv /\ [LambdaNext]_lambdaVars => IInv' BY NextHolds
<1> QED BY <1>1, <1>2, PTL DEF LambdaSpec

(* The pointers of a visitor's functions always go into its own vector and *)
(* within its size (init, the moves of the class).                         *)
THEOREM PointersAlwaysGood == RequestsFit /\ NamesKnown => (LambdaSpec => []PointersStayGood)
<1> SUFFICES ASSUME RequestsFit, NamesKnown PROVE LambdaSpec => []PointersStayGood
  OBVIOUS
<1>1. IInv => PointersStayGood BY DEF IInv, Made, Pointed, Good, PointersStayGood
<1>2. LambdaSpec => []IInv BY InvariantHolds
<1> QED BY <1>1, <1>2, PTL

(* call returns the values of the expressions of the last init that        *)
(* returned, with and without cse, whatever was done to the visitors since *)
(* (init, call and the moves), and a visitor knows all symbols of what its *)
(* last init accepted (bvisit(Symbol)).                                    *)
THEOREM CallAlwaysEvaluates == RequestsFit /\ NamesKnown => (LambdaSpec => []CallEvaluates)
<1> SUFFICES ASSUME RequestsFit, NamesKnown PROVE LambdaSpec => []CallEvaluates
  OBVIOUS
<1>1. IInv => UndefinedRaises
  <2> SUFFICES ASSUME IInv, NEW v \in Visitors
               PROVE  SymbolsOf(lambda[v].ready.outputs) \subseteq ToSet(lambda[v].ready.inputs)
    BY DEF UndefinedRaises
  <2>1. Ready(lambda[v]) BY DEF IInv, Made
  <2> QED BY <2>1, NoSymbols DEF Ready
<1>2. IInv => Evaluates BY EvaluatesIfServing DEF Evaluates
<1>3. IInv => CallEvaluates BY <1>1, <1>2 DEF CallEvaluates
<1>4. LambdaSpec => []IInv BY InvariantHolds
<1> QED BY <1>3, <1>4, PTL

=============================================================================
