\* One worker (worker_count 0: the main thread alone) and enough descriptors.
CONSTANTS
  w1 = w1 c1 = c1 c2 = c2
  Workers = {w1}
  Conns = {c1, c2}
  Acc = Acc
  Fds = {f1, f2}
  ListenFd = ListenFd
  s0 = s0
  Slots = {s0, s1, s2}
  AccSlot = s0
  None = None
  MaxSegments = 2
  MaxReplies = 2
  SendBuffersFill = FALSE
SPECIFICATION FairSpec
INVARIANT NotForgotten
PROPERTIES InputIsRead ClientIsServed ConnectionEnds
