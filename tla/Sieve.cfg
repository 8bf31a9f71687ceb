SPECIFICATION MCSpec
CONSTANTS
  Iters = {i1, i2}
  Limits = {0, 41}
  Requests = {41}
  Sizes = {4, 8}
  Beyond = {FALSE}
  Word = 2048
  MaxPrimes = 15
INVARIANTS
  MemoryIsPrimes
  NoWildRead
  GeneratedExact
PROPERTIES
  IteratorExact
  LoopsEnd
