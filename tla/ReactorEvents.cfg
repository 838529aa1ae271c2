\* One worker, a client that does not read: the send buffer fills.
CONSTANTS
  w1 = w1 c1 = c1
  Workers = {w1}
  Conns = {c1}
  Acc = Acc
  Fds = {f1}
  ListenFd = ListenFd
  s0 = s0
  Slots = {s0, s1}
  AccSlot = s0
  None = None
  MaxSegments = 1
  MaxReplies = 2
  SendBuffersFill = TRUE
SPECIFICATION Spec
INVARIANT WaitsForItsEvent
