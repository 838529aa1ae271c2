\* Two connection slots beside accept_loop's, reused over four spawns.
CONSTANTS
  w1 = w1 w2 = w2 w3 = w3
  Workers = {w1, w2, w3}
  MaxSlots = 3
  SlotSpan = 3
  GenSpan = 16
  MaxSpawns = 4
  None = None
  Spawner = Spawner
SPECIFICATION FairSpec
INVARIANTS TypeOK SlotConservation ClaimsEmptySlot OwnHandlePasses
PROPERTY SlotsReleased
\* With MaxSpawns tasks done the workers wait in ppoll, which is not modelled.
CHECK_DEADLOCK FALSE
