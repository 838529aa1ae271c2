\* Two workers in ppoll with the same list: the second takes a newer waker.
CONSTANTS
  w1 = w1 w2 = w2 c1 = c1
  Workers = {w1, w2}
  Conns = {c1}
  Acc = Acc
  Fds = {f1}
  ListenFd = ListenFd
  s0 = s0
  Slots = {s0, s1}
  AccSlot = s0
  None = None
  MaxSegments = 2
  MaxReplies = 1
  SendBuffersFill = FALSE
SPECIFICATION Spec
INVARIANT NotForgotten
