SPECIFICATION Spec
CONSTANTS
  Threads = {t1, t2}
  Vars = {v1, v2}
  Objs = {o1, o2, o3}
  NFields = 2
  CounterSize = 16
  Null = Null
SYMMETRY Symmetry
INVARIANTS
  TypeOK
  CountExact
  NoDangling
  DestroyedOnce
  NoLeak
