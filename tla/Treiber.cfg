\* One thread wakes, another takes; nodes are recycled through the freelist.
CONSTANTS
  p = p c = c
  Wakers = {p}
  Takers = {c}
  FREELIST_MAX = 2
  CountSpan = 8
  MaxWakes = 5
  Null = Null
SPECIFICATION FairSpec
INVARIANTS TypeOK MemoryIsStack FreelistBounded
PROPERTIES ImplementsTaskStack OperationsEnd
