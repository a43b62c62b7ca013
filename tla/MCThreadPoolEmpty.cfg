CONSTANTS
  c1 = c1
  c2 = c2
  c3 = c3
  c4 = c4
  Workers = {}
  Conns = {c1, c2, c3, c4}
  Main = Main
  None = None
SPECIFICATION Spec
INVARIANT CleanExit
