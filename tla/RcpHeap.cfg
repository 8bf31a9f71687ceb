SPECIFICATION Spec
CONSTANTS
  Threads = {t1, t2}
  Vars = {v1, v2}
  Objs = {o1, o2}
  NFields = 1
  CounterSize = 16
  Null = Null
PROPERTIES
  EventuallyFreed
  ImplementsSharedHeap
