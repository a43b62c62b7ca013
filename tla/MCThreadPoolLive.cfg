CONSTANTS
  w1 = w1
  w2 = w2
  c1 = c1
  c2 = c2
  c3 = c3
  Workers = {w1, w2}
  Conns = {c1, c2, c3}
  Main = Main
  None = None
SPECIFICATION FairSpec
PROPERTIES
  ShutdownCompletes
  EveryConnectionCloses
  QueuedOnlyWhileAllBusy
