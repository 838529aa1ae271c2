\* Two workers that both wake and take, against the limit of the freelist.
CONSTANTS
  w1 = w1 w2 = w2
  Wakers = {w1, w2}
  Takers = {w1, w2}
  FREELIST_MAX = 1
  CountSpan = 8
  MaxWakes = 3
  Null = Null
SPECIFICATION Spec
INVARIANT FreelistCapped
