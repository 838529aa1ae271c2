\* Two workers that both wake and take, as every worker of the server does.
CONSTANTS
  w1 = w1 w2 = w2
  Wakers = {w1, w2}
  Takers = {w1, w2}
  FREELIST_MAX = 2
  CountSpan = 8
  MaxWakes = 3
  Null = Null
SPECIFICATION Spec
INVARIANT MemoryIsStack
