\* Two workers; two connections that share one file descriptor number.
CONSTANTS
  w1 = w1 w2 = w2 c1 = c1 c2 = c2
  Workers = {w1, w2}
  Conns = {c1, c2}
  Acc = Acc
  Fds = {f1}
  ListenFd = ListenFd
  s0 = s0
  Slots = {s0, s1}
  AccSlot = s0
  None = None
  MaxSegments = 2
  MaxReplies = 2
  SendBuffersFill = TRUE
SPECIFICATION Spec
SYMMETRY Symmetric
INVARIANTS TypeOK NoStrandedWork Watched RegistryNamesSlot WakesBounded
