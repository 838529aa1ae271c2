\* One thread wakes, two take: free_node is called by both at a time.
CONSTANTS
  p = p c1 = c1 c2 = c2
  Wakers = {p}
  Takers = {c1, c2}
  FREELIST_MAX = 1
  CountSpan = 6
  MaxWakes = 4
  Null = Null
SPECIFICATION Spec
INVARIANT FreelistBounded
