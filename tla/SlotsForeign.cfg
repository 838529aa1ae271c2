\* One connection slot: a stale handle passes the check before the slot's reuse.
CONSTANTS
  w1 = w1 w2 = w2
  Workers = {w1, w2}
  MaxSlots = 2
  SlotSpan = 2
  GenSpan = 16
  MaxSpawns = 2
  None = None
  Spawner = Spawner
SPECIFICATION Spec
INVARIANT NoForeignPoll
CHECK_DEADLOCK FALSE
