\* Three threads, a heap of eleven bytes at 8, addresses of 0..47.
CONSTANTS
  main = main w1 = w1 w2 = w2
  Threads = {main, w1, w2}
  Main = main
  HeapBase = 8
  HeapSize = 11
  WordSpan = 48
  Layouts <- SomeLayouts
  MaxAllocs = 5
SPECIFICATION Spec
INVARIANTS BlocksDisjoint BlocksInHeap HeapMappedOnce
\* Threads end on a failed allocation, and MaxAllocs ends the rest.
CHECK_DEADLOCK FALSE
