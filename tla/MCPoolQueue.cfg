CONSTANTS
  w1 = w1
  w2 = w2
  w3 = w3
  c1 = c1
  c2 = c2
  c3 = c3
  c4 = c4
  Workers = {w1, w2, w3}
  Conns = {c1, c2, c3, c4}
  Fds = {c1, c2, c3, c4}
  n1 = n1
  n2 = n2
  n3 = n3
  Nodes = {n1, n2, n3}
  NULL = NULL
  NoFd = None
  Main = Main
  None = None
SPECIFICATION PoolSpec
SYMMETRY Symmetry
INVARIANTS
  MutexOwnership
  DescriptorOwnership
  NoLostWakeup
  PopFindsTask
  NobodySleepsAtExit
  ExitLeavesNoTask
  CleanExit
  ListIsWhole
  ListIsTheQueue
PROPERTIES
  ServiceSpec
